---- MODULE Spec2Model ----
(***************************************************************************)
(* My-Board: the slide deck with its per-slide undo/redo history (App.tsx) *)
(* and the raster annotation engine (components/CanvasLayer.tsx).          *)
(*                                                                         *)
(* One action is one event handler of the program together with the React  *)
(* re-render it causes and the effects that re-render runs.                *)
(*                                                                         *)
(* Representation.                                                         *)
(*  - The canvas is a grid of square cells of CellPx CSS pixels, numbered  *)
(*    row by row (Pixels).  The raster surface is the set of cells that    *)
(*    hold ink or any other mark; colour is left out.  Pointer events      *)
(*    arrive at the corners of the cells, in CSS pixels.                   *)
(*  - A bitmap (an off-screen canvas) is [w, h, px, tint]: its size in     *)
(*    pixels, the set of its marked cells <<i, j>> and the colour its      *)
(*    marks were recoloured to (0: as drawn).                              *)
(*  - A nullable ref is a sequence: <<>> is null, <<v>> holds v.           *)
(*    A nullable point is <<>> or the pair <<x, y>> itself.               *)
(*  - A blob (data URL) is a natural number: 0 is the empty string '' (and *)
(*    null: the code only ever tests blobs for truthiness), a positive     *)
(*    number is a PNG data URL.  toDataURL and decodeImage convert between *)
(*    surfaces and blobs.                                                  *)
(*  - A text is a sequence of characters (a letter, a space, a line break). *)
(*  - Slide indices are 1-based here (0-based in the source).              *)
(***************************************************************************)
EXTENDS Integers, Sequences, FiniteSets, TLC

\* ------------------------------------------------------------------ bounds
\* Number of cells of the (one-row) raster surface of the interleaved model.
NPixels == 1
\* Side of a cell, in CSS pixels.
CellPx == 4
\* Side of the square raster surface of the selection model, in cells.
GridCells == 3
\* Total number of checkpoints in the selection model.
MaxSelCheckpoints == 2
\* Largest co-ordinate (in CSS pixels) a duplicated selection is moved to.
MaxOffset == 24
\* Total number of checkpoints the engine emits in the interleaved model.
MaxCheckpoints == 2
\* Pending asynchronous image decodes of the engine.
MaxImgLoads == 1
\* Distinct blobs the engine hands to the deck in the deck specification.
NBlobs == 2
\* Pending asynchronous thumbnail generations.
MaxThumbLoads == 1
\* Checkpoints recorded before the measured run of the history scenario.
MaxPre == 20
\* Length of the measured run of consecutive checkpoints.
MaxRun == 22
\* Samples of one stroke sample path.
MaxPoints == 4
\* Clock range of the trail model, in units of 100 ms.
MaxTime == 4
\* Points kept in the trail.
MaxLaserPoints == 2
\* User events of one run of the selection scenario.
MaxEvents == 13
\* Characters of one text.
MaxText == 2
\* Largest slide id the deck-editing scenario hands out.
MaxSlideId == 5
\* Image files of one upload.
MaxFiles == 2
\* User events of one run of the deck-editing scenario.
MaxEditEvents == 10

\* ------------------------------------------------------- program constants
\* "if (newPast.length > 20) newPast.shift()"
MAX_HISTORY == 20
\* "now - p.time < 300", in clock units of 100 ms
LASER_WINDOW == 3
\* "if (w < 5 || h < 5)"
MIN_SELECTION == 5
\* "selectionRef.current.x += 20"
DUPLICATE_OFFSET == 20
\* window.devicePixelRatio of the displays the selection model runs on
DevicePixelRatios == {1, 2}

PEN == "PEN"
ERASER == "ERASER"
POINTER == "POINTER"
LASER == "LASER"
SHAPE == "SHAPE"
SELECT == "SELECT"
TEXT == "TEXT"

\* The characters typed into the text input.
LETTER == "a"
SPACE == " "
NEWLINE == "\n"

\* penStyle.size of "useState<PenStyle>({ color: '#ef4444', size: 4, effect: 'normal' })"
PEN_SIZE == 4

\* The three demo slides the deck starts with.
DEMO_SLIDES == << [id |-> 1, thumbnailUrl |-> 0],
                  [id |-> 2, thumbnailUrl |-> 0],
                  [id |-> 3, thumbnailUrl |-> 0] >>

VARIABLES
  \* ---- App.tsx
  slides,             \* sequence of [id, thumbnailUrl]
  currentSlideIndex,  \* 1..Len(slides)
  activeTool,
  drawings,           \* slide id -> blob, for the slides that have ink
  history,            \* slide id -> [past, future], created lazily
  thumbLoads,         \* pending thumbnail generations: sequence of [slideId, dataUrl]
  \* ---- CanvasLayer.tsx
  surface,            \* set of inked pixels of the raster surface
  isDrawing,
  pointsRef,          \* stroke sample path
  skipNextRedraw,
  imgLoads,           \* pending decodes: sequence of [src, stale]
  width,              \* CSS width of the canvas, in pixels
  height,             \* CSS height of the canvas, in pixels
  dpr,                \* window.devicePixelRatio
  lastPos,            \* nullable point <<x, y>>
  startPos,           \* nullable point
  snapshotRef,        \* nullable surface: the surface before the drag
  gesturePos,         \* observation only: where the pointer is in the current gesture
                      \* of the selection tool (<<>>: no such gesture)
  selectionRef,       \* nullable [canvas, x, y, w, h]: the floating selection
  bgSnapshotRef,      \* nullable surface: the surface with the hole
  clipboardRef,       \* nullable [canvas, w, h]
  selectionMenu,      \* the selection menu is shown
  textInput,          \* [x, y, text, visible]: the text input overlay
  laserPointsRef,     \* sequence of [x, time]
  laserCanvas,        \* the points painted on the overlay by the last frame
  rafPending,         \* pending animation-frame callbacks: set of [id, tool]
  laserReqRef,        \* id of the last requested frame
  now,                \* clock, in units of 100 ms
  \* ---- observation
  emitted,            \* number of checkpoints emitted so far
  lastOp,             \* the App handler that ran last (deck specifications only)
  phase,              \* history scenario: "pre", "cleared", "run", "undo", "redo", "post"
  nPre,               \* checkpoints recorded before the measured run
  nRun,               \* N: consecutive checkpoints of the measured run
  nUndo,              \* undo requests after the run
  nRedo,              \* redo requests after the undos
  preLog,             \* the pre-states of the run's checkpoints, oldest first
  snap,               \* the slide's state right after the run's last checkpoint
  nEvents             \* observation only: user events handled in the selection scenario

appVars == <<slides, currentSlideIndex, activeTool, drawings, history, thumbLoads>>
canvasVars == <<surface, isDrawing, pointsRef, skipNextRedraw, imgLoads>>
viewVars == <<width, height, dpr>>
dragVars == <<lastPos, startPos, snapshotRef, gesturePos>>
selVars == <<selectionRef, bgSnapshotRef, clipboardRef, selectionMenu, textInput>>
laserVars == <<laserPointsRef, laserCanvas, rafPending, laserReqRef, now>>
scriptVars == <<lastOp, phase, nPre, nRun, nUndo, nRedo, preLog, snap>>
vars == <<appVars, canvasVars, viewVars, dragVars, selVars, laserVars, emitted, scriptVars,
          nEvents>>

\* ----------------------------------------------------------------- geometry
cols == width \div CellPx
rows == height \div CellPx
Pixels == 1..(cols * rows)

\* The positions pointer events arrive at: the corners of the cells.
Points == {<<x * CellPx, y * CellPx>> : x \in 0..cols, y \in 0..rows}
\* The corners that have a cell to their lower right.
CellPoints == {pt \in Points : pt[1] < width /\ pt[2] < height}

\* The cell with column cx and row cy (0-based), and the cell at a CSS position.
cellAt(cx, cy) == 1 + cx + cols * cy
pixelAt(pt) == cellAt(pt[1] \div CellPx, pt[2] \div CellPx)
inCanvas(cx, cy) == cx >= 0 /\ cx < cols /\ cy >= 0 /\ cy < rows

\* ------------------------------------------------------------ pure helpers
RECURSIVE Pow2(_)
Pow2(n) == IF n = 0 THEN 1 ELSE 2 * Pow2(n - 1)

RECURSIVE SumBits(_)
SumBits(S) == IF S = {} THEN 0
              ELSE LET p == CHOOSE q \in S : TRUE
                   IN Pow2(p - 1) + SumBits(S \ {p})

\* canvas.toDataURL(): never the empty string, also for a blank canvas.
toDataURL(surf) == 1 + SumBits(surf)

\* new Image(); img.src = blob: the pixels the blob holds.
decodeImage(blob) == {p \in Pixels : ((blob - 1) \div Pow2(p - 1)) % 2 = 1}

\* drawings.find(d => d.slideId === id)?.dataUrl || ''   (or || null)
drawingOf(ds, id) == IF id \in DOMAIN ds THEN ds[id] ELSE 0

\* prev.filter(d => d.slideId !== id)
withoutDrawing(ds, id) == [x \in DOMAIN ds \ {id} |-> ds[x]]

\* [...filtered, { slideId: id, dataUrl: blob }]
withDrawing(ds, id, blob) ==
  [x \in DOMAIN ds \cup {id} |-> IF x = id THEN blob ELSE ds[x]]

\* Undo and redo store the blob only when it is truthy.
setDrawing(ds, id, blob) ==
  IF blob = 0 THEN withoutDrawing(ds, id) ELSE withDrawing(ds, id, blob)

\* prev[id] || { past: [], future: [] }
historyOf(h, id) == IF id \in DOMAIN h THEN h[id] ELSE [past |-> <<>>, future |-> <<>>]

\* { ...prev, [id]: entry }
withHistory(h, id, entry) ==
  [x \in DOMAIN h \cup {id} |-> IF x = id THEN entry ELSE h[x]]

currentSlideId == slides[currentSlideIndex].id
currentDrawing == drawingOf(drawings, currentSlideId)

\* slides.map(s => s.id === id ? { ...s, thumbnailUrl: url } : s)
withThumbnail(ss, id, url) ==
  [i \in 1..Len(ss) |-> IF ss[i].id = id THEN [ss[i] EXCEPT !.thumbnailUrl = url] ELSE ss[i]]

Front(s) == SubSeq(s, 1, Len(s) - 1)
Last(s) == s[Len(s)]
RemoveAt(s, i) == SubSeq(s, 1, i - 1) \o SubSeq(s, i + 1, Len(s))


\* ------------------------------------------------------- App.tsx: history
\* Mutant: the cap drops the newest entry (pop) instead of the oldest (shift).
capPastPop(newPast) == IF Len(newPast) > MAX_HISTORY THEN Front(newPast) ELSE newPast

\* "if (newPast.length > 20) newPast.shift()"
capPast(newPast) == IF Len(newPast) > MAX_HISTORY THEN Tail(newPast) ELSE newPast

\* Mutant: a checkpoint keeps the redo stack.
saveEntryKeepsFuture(h, previousDrawing) ==
  [past |-> capPast(Append(h.past, previousDrawing)), future |-> h.future]

\* handleSaveDrawing's history update: push the previous blob, cap, clear future.
saveEntry(h, previousDrawing) ==
  [past |-> capPast(Append(h.past, previousDrawing)), future |-> <<>>]

\* Mutant: undo appends the current blob to the end of future.
undoEntryAppends(h, currentState) ==
  [past |-> Front(h.past), future |-> Append(h.future, currentState)]

\* handleUndo's history update.
undoEntry(h, currentState) ==
  [past |-> Front(h.past), future |-> <<currentState>> \o h.future]

\* Mutant: redo puts the current blob at the front of past.
redoEntryPrepends(h, currentState) ==
  [past |-> <<currentState>> \o h.past, future |-> Tail(h.future)]

\* Mutant: redo leaves the redone blob on the redo stack.
redoEntryKeepsHead(h, currentState) ==
  [past |-> Append(h.past, currentState), future |-> h.future]

\* handleRedo's history update.
redoEntry(h, currentState) ==
  [past |-> Append(h.past, currentState), future |-> Tail(h.future)]

\* handleClearSlide's history update: no cap is applied here.
clearEntry(h, currentDrawingBlob) ==
  [past |-> Append(h.past, currentDrawingBlob), future |-> <<>>]

\* updateSlideThumbnail: without ink the thumbnail is dropped at once, with ink
\* it is regenerated when the background and the ink image have loaded.
updateSlideThumbnail(slideId, dataUrl) ==
  IF dataUrl = 0
    THEN /\ slides' = withThumbnail(slides, slideId, 0)
         /\ UNCHANGED thumbLoads
    ELSE /\ Len(thumbLoads) < MaxThumbLoads
         /\ thumbLoads' = Append(thumbLoads, [slideId |-> slideId, dataUrl |-> dataUrl])
         /\ UNCHANGED slides

\* handleSaveDrawing as a closure that has captured the slide id and that
\* slide's blob; setHistory and setDrawings update the latest state.
saveDrawingFrom(id, previousDrawing, newDataUrl) ==
  /\ history' = withHistory(history, id, saveEntry(historyOf(history, id), previousDrawing))
  /\ drawings' = withDrawing(drawings, id, newDataUrl)
  /\ updateSlideThumbnail(id, newDataUrl)
  /\ UNCHANGED currentSlideIndex

handleSaveDrawing(newDataUrl) == saveDrawingFrom(currentSlideId, currentDrawing, newDataUrl)

handleUndo ==
  LET id == currentSlideId
  IN IF id \notin DOMAIN history \/ history[id].past = <<>>
       THEN UNCHANGED <<history, drawings, slides, thumbLoads, currentSlideIndex>>
       ELSE LET previousState == Last(history[id].past)
                currentState == currentDrawing
            IN /\ history' = withHistory(history, id, undoEntry(history[id], currentState))
               /\ drawings' = setDrawing(drawings, id, previousState)
               /\ updateSlideThumbnail(id, previousState)
               /\ UNCHANGED currentSlideIndex

handleRedo ==
  LET id == currentSlideId
  IN IF id \notin DOMAIN history \/ history[id].future = <<>>
       THEN UNCHANGED <<history, drawings, slides, thumbLoads, currentSlideIndex>>
       ELSE LET nextState == Head(history[id].future)
                currentState == currentDrawing
            IN /\ history' = withHistory(history, id, redoEntry(history[id], currentState))
               /\ drawings' = setDrawing(drawings, id, nextState)
               /\ updateSlideThumbnail(id, nextState)
               /\ UNCHANGED currentSlideIndex

handleClearSlide ==
  LET id == currentSlideId
  IN IF currentDrawing = 0
       THEN UNCHANGED <<history, drawings, slides, thumbLoads, currentSlideIndex>>
       ELSE /\ history' = withHistory(history, id, clearEntry(historyOf(history, id), currentDrawing))
            /\ drawings' = withoutDrawing(drawings, id)
            /\ slides' = withThumbnail(slides, id, 0)
            /\ UNCHANGED <<thumbLoads, currentSlideIndex>>

\* ------------------------------------------------ App.tsx: editing the deck
\* delete newHistory[id]
withoutHistory(h, id) == [x \in DOMAIN h \ {id} |-> h[x]]

\* The ids the deck has used that a later id could be compared with.
usedIds ==
  {slides[i].id : i \in 1..Len(slides)} \cup {DEMO_SLIDES[i].id : i \in 1..Len(DEMO_SLIDES)}
    \cup DOMAIN drawings \cup DOMAIN history
    \cup {thumbLoads[i].slideId : i \in 1..Len(thumbLoads)}

\* `slide-${Date.now()}`, `upload-${Date.now()}-${index}`: an id made from the
\* clock differs from every id made before; k is the index.
newId(k) == (CHOOSE m \in usedIds : \A x \in usedIds : x <= m) + 1 + k

handleAddSlide ==
  /\ newId(0) <= MaxSlideId
  /\ slides' = Append(slides, [id |-> newId(0), thumbnailUrl |-> 0])
  /\ currentSlideIndex' = Len(slides) + 1
  /\ UNCHANGED <<history, drawings, thumbLoads>>

\* Mutant: the delete does not adjust the current index.
handleDeleteSlideKeepsIndex(id) ==
  IF Len(slides) <= 1 \/ ~\E i \in 1..Len(slides) : slides[i].id = id
    THEN UNCHANGED <<history, drawings, slides, thumbLoads, currentSlideIndex>>
    ELSE LET indexToDelete == CHOOSE i \in 1..Len(slides) : slides[i].id = id
         IN /\ slides' = RemoveAt(slides, indexToDelete)
            /\ drawings' = withoutDrawing(drawings, id)
            /\ history' = withoutHistory(history, id)
            /\ UNCHANGED <<thumbLoads, currentSlideIndex>>

handleDeleteSlide(id) ==
  IF Len(slides) <= 1 \/ ~\E i \in 1..Len(slides) : slides[i].id = id
    THEN UNCHANGED <<history, drawings, slides, thumbLoads, currentSlideIndex>>
    ELSE LET indexToDelete == CHOOSE i \in 1..Len(slides) : slides[i].id = id
         IN /\ slides' = RemoveAt(slides, indexToDelete)
            /\ currentSlideIndex' =
                 IF indexToDelete = currentSlideIndex
                   THEN (IF indexToDelete > 1 THEN indexToDelete - 1 ELSE 1)
                 ELSE IF indexToDelete < currentSlideIndex THEN currentSlideIndex - 1
                 ELSE currentSlideIndex
            /\ drawings' = withoutDrawing(drawings, id)
            /\ history' = withoutHistory(history, id)
            /\ UNCHANGED thumbLoads

\* handleFileUpload with n image files chosen: the deck is replaced.
handleFileUpload(n) ==
  IF n = 0
    THEN UNCHANGED <<history, drawings, slides, thumbLoads, currentSlideIndex>>
    ELSE /\ newId(n - 1) <= MaxSlideId
         /\ slides' = [i \in 1..n |-> [id |-> newId(i - 1), thumbnailUrl |-> 0]]
         /\ currentSlideIndex' = 1
         /\ drawings' = <<>>
         /\ history' = <<>>
         /\ UNCHANGED thumbLoads

\* --------------------------------------------------- App.tsx: navigation
handleNextSlide ==
  /\ currentSlideIndex' = IF currentSlideIndex < Len(slides)
                            THEN currentSlideIndex + 1 ELSE currentSlideIndex
  /\ UNCHANGED <<history, drawings, slides, thumbLoads>>

handlePrevSlide ==
  /\ currentSlideIndex' = IF currentSlideIndex > 1
                            THEN currentSlideIndex - 1 ELSE currentSlideIndex
  /\ UNCHANGED <<history, drawings, slides, thumbLoads>>

handleSlideSelect(index) ==
  /\ currentSlideIndex' = index
  /\ UNCHANGED <<history, drawings, slides, thumbLoads>>

\* ------------------------------------------- CanvasLayer.tsx: canvas drawing
\* The cells a rectangle of CSS pixels overlaps (none when it is empty).
coveredCells(x, y, w, h) ==
  IF w <= 0 \/ h <= 0 THEN {}
  ELSE {cellAt(cx, cy) : <<cx, cy>> \in
          {q \in ((x \div CellPx)..((x + w - 1) \div CellPx)) \X
                 ((y \div CellPx)..((y + h - 1) \div CellPx)) : inCanvas(q[1], q[2])}}

\* ctx.getImageData(x * dpr, y * dpr, w * dpr, h * dpr), put into a canvas of
\* w * dpr by h * dpr pixels: the device pixels of the region.
getImageData(surf, x, y, w, h) ==
  [w |-> w * dpr, h |-> h * dpr,
   px |-> {q \in (0..((w * dpr) \div CellPx - 1)) \X (0..((h * dpr) \div CellPx - 1)) :
             /\ inCanvas(x \div CellPx + q[1] \div dpr, y \div CellPx + q[2] \div dpr)
             /\ cellAt(x \div CellPx + q[1] \div dpr, y \div CellPx + q[2] \div dpr) \in surf},
   tint |-> 0]

\* ctx.clearRect(x, y, w, h) on the main context.
clearRect(surf, x, y, w, h) == surf \ coveredCells(x, y, w, h)

\* ctx.drawImage(canvas, x, y) on the main context.  No size is given, so a
\* pixel of the bitmap covers one unit of the context, which the context's
\* scale(dpr, dpr) makes one CSS pixel.
drawImage(surf, bitmap, x, y) ==
  surf \cup UNION {coveredCells(x + q[1] * CellPx, y + q[2] * CellPx, CellPx, CellPx) :
                     q \in bitmap.px}

\* drawImage(canvas, 0, 0) on a new canvas of w by h pixels without a
\* transform: the part of the bitmap that fits.
copyBitmap(bitmap, w, h) ==
  [w |-> w, h |-> h,
   px |-> {q \in bitmap.px : q[1] < w \div CellPx /\ q[2] < h \div CellPx},
   tint |-> bitmap.tint]

\* Mutant: the fill is painted over the bitmap ('source-over').
recolorFills(bitmap, color) ==
  [bitmap EXCEPT !.px = (0..(bitmap.w \div CellPx - 1)) \X (0..(bitmap.h \div CellPx - 1)),
                 !.tint = color]

\* changeSelectionColor's compositing: fillRect over the whole bitmap with
\* 'source-in' keeps the marks of the bitmap and gives them the fill colour.
recolor(bitmap, color) ==
  [bitmap EXCEPT !.px = bitmap.px \cap
                        ((0..(bitmap.w \div CellPx - 1)) \X (0..(bitmap.h \div CellPx - 1))),
                 !.tint = color]

\* The cells the dashed border strokeRect(x, y, w, h) runs through.
borderCells(x, y, w, h) ==
  coveredCells(x, y, w, 1) \cup coveredCells(x, y + h - 1, w, 1) \cup
  coveredCells(x, y, 1, h) \cup coveredCells(x + w - 1, y, 1, h)

\* redrawScene(): the background with the hole, the floating bitmap and its
\* dashed border; nothing without a background.
redrawScene(surf, bg, sel) ==
  IF bg = <<>> THEN surf
  ELSE IF sel = <<>> THEN bg[1]
  ELSE drawImage(bg[1], sel[1].canvas, sel[1].x, sel[1].y)
         \cup borderCells(sel[1].x, sel[1].y, sel[1].w, sel[1].h)

Min(a, b) == IF a < b THEN a ELSE b
Abs(a) == IF a < 0 THEN 0 - a ELSE a

\* The rubber band draw() paints while a selection is dragged out.
previewCells(from, to) ==
  coveredCells(Min(from[1], to[1]), Min(from[2], to[2]),
               Abs(to[1] - from[1]), Abs(to[2] - from[2]))

\* ------------------------------------- CanvasLayer.tsx: reload of the ink
\* "{ x: 0, y: 0, text: '', visible: false }"
noTextInput == [x |-> 0, y |-> 0, text |-> <<>>, visible |-> FALSE]

\* Observation only: a pending decode is stale once a newer reload was started
\* or the user drew on the surface.
markStale(loads) == [i \in 1..Len(loads) |-> [loads[i] EXCEPT !.stale = TRUE]]

\* useEffect(..., [savedDrawing, width, height]), run on the engine state
\* c = [skip, surface, points, loads, sel, bg, menu, text] with the new
\* savedDrawing.
useEffectSavedDrawing(c, savedDrawing) ==
  IF c.skip
    THEN [c EXCEPT !.skip = FALSE]
    ELSE [skip |-> FALSE,
          surface |-> {},
          points |-> <<>>,
          loads |-> IF savedDrawing # 0
                      THEN Append(markStale(c.loads), [src |-> savedDrawing, stale |-> FALSE])
                      ELSE markStale(c.loads),
          sel |-> <<>>,
          bg |-> <<>>,
          menu |-> FALSE,
          text |-> noTextInput]

\* The re-render after a handler: the effect runs only when savedDrawing changed.
Rerender(c) ==
  LET r == IF currentDrawing' = currentDrawing THEN c
           ELSE useEffectSavedDrawing(c, currentDrawing')
  IN /\ Len(r.loads) <= MaxImgLoads
     /\ skipNextRedraw' = r.skip
     /\ surface' = r.surface
     /\ pointsRef' = r.points
     /\ imgLoads' = r.loads
     /\ selectionRef' = r.sel
     /\ bgSnapshotRef' = r.bg
     /\ selectionMenu' = r.menu
     /\ textInput' = r.text

engine == [skip |-> skipNextRedraw, surface |-> surface, points |-> pointsRef, loads |-> imgLoads,
           sel |-> selectionRef, bg |-> bgSnapshotRef, menu |-> selectionMenu,
           text |-> textInput]

\* What a handler's onSave sees of the deck: the handlers of the current render
\* see the current slide and its blob.
renderClosure == [slideId |-> currentSlideId, previousDrawing |-> currentDrawing]

\* The keydown listener is bound by useEffect(..., [width, height]): its
\* copy/cut/paste/delete and their onSave are those of the render in which the
\* engine was mounted, when the first slide was shown and had no ink.
keydownClosure == [slideId |-> DEMO_SLIDES[1].id, previousDrawing |-> 0]

\* The end of a handler that leaves the engine in state c and has called
\* onSave(blob[1]) (blob = <<>>: it has not), followed by the re-render.
Emit(c, blob, closure, limit) ==
  /\ IF blob = <<>>
       THEN UNCHANGED <<slides, currentSlideIndex, drawings, history, thumbLoads, emitted>>
       ELSE /\ emitted < limit
            /\ emitted' = emitted + 1
            /\ saveDrawingFrom(closure.slideId, closure.previousDrawing, blob[1])
  /\ Rerender(c)

\* --------------------------------------------- CanvasLayer.tsx: selection
\* commitSelection() on the engine state c; c.sel is not null.
commitSelection(c) ==
  LET s == c.sel[1]
      base == IF c.bg # <<>> THEN c.bg[1] ELSE c.surface
  IN [c EXCEPT !.surface = drawImage(base, s.canvas, s.x, s.y),
               !.sel = <<>>, !.bg = <<>>, !.menu = FALSE, !.skip = TRUE,
               !.loads = markStale(c.loads)]

\* Mutant: the deletion keeps the background snapshot.
deleteSelectionKeepsHole(c) ==
  [c EXCEPT !.surface = c.bg[1],
            !.sel = <<>>, !.menu = FALSE, !.skip = TRUE,
            !.loads = markStale(c.loads)]

\* deleteSelection() on the engine state c; c.bg is not null.
deleteSelection(c) ==
  [c EXCEPT !.surface = c.bg[1],
            !.sel = <<>>, !.bg = <<>>, !.menu = FALSE, !.skip = TRUE,
            !.loads = markStale(c.loads)]

\* copySelection(): the clipboard entry made from the selection s.
copySelection(s) == [canvas |-> copyBitmap(s.canvas, s.w, s.h), w |-> s.w, h |-> s.h]

\* "coords.x >= x && coords.x <= x + w && coords.y >= y && coords.y <= y + h"
insideSelection(pt, s) ==
  pt[1] >= s.x /\ pt[1] <= s.x + s.w /\ pt[2] >= s.y /\ pt[2] <= s.y + s.h

\* "if (w < 5 || h < 5)"
tooSmall(w, h) == w < MIN_SELECTION \/ h < MIN_SELECTION

\* -------------------------------------------------- CanvasLayer.tsx: text
isWhitespace(ch) == ch \in {SPACE, NEWLINE}

\* String.prototype.trim(): the text without its leading and trailing
\* whitespace.
RECURSIVE trim(_)
trim(text) ==
  IF text = <<>> THEN <<>>
  ELSE IF isWhitespace(Head(text)) THEN trim(Tail(text))
  ELSE IF isWhitespace(Last(text)) THEN trim(Front(text))
  ELSE text

\* text.split('\n'): the lines of the text, at least one.
RECURSIVE split(_)
split(text) ==
  IF text = <<>> THEN << <<>> >>
  ELSE LET rest == split(Tail(text))
       IN IF Head(text) = NEWLINE THEN << <<>> >> \o rest
          ELSE << <<Head(text)>> \o rest[1] >> \o Tail(rest)

\* "lineHeight = penStyle.size * 2.4": the top of line i (0-based) of a
\* text put at y, rounded down to a whole pixel.
lineTop(y, i) == y + (i * PEN_SIZE * 24) \div 10

\* ctx.fillText(line, x, y) with textBaseline 'top': a line with a visible
\* character marks the cell its first glyph starts in, a line of spaces
\* marks nothing.
fillText(line, x, y) ==
  IF (\E k \in 1..Len(line) : ~isWhitespace(line[k])) /\ <<x, y>> \in CellPoints
    THEN {pixelAt(<<x, y>>)} ELSE {}

\* The cells the lines of the text input mark.
textCells(t) ==
  LET lines == split(t.text)
  IN UNION {fillText(lines[i], t.x, lineTop(t.y, i - 1)) : i \in 1..Len(lines)}

\* Mutant: any text that is not empty is rasterized.
rasterizesAnyText(t) == t.visible /\ t.text # <<>>

\* commitText() rasterizes and saves: the text input is visible and its text
\* has a character that is not whitespace.
rasterizes(t) == t.visible /\ trim(t.text) # <<>>

\* Mutant: the text input stays open with its text after the commit.
commitTextKeepsEdit(c) ==
  IF ~rasterizes(c.text)
    THEN [c EXCEPT !.text.visible = FALSE]
    ELSE [c EXCEPT !.surface = c.surface \cup textCells(c.text),
                   !.skip = TRUE,
                   !.loads = markStale(c.loads)]

\* commitText() on the engine state c.
commitText(c) ==
  IF ~rasterizes(c.text)
    THEN [c EXCEPT !.text.visible = FALSE]
    ELSE [c EXCEPT !.surface = c.surface \cup textCells(c.text),
                   !.skip = TRUE,
                   !.loads = markStale(c.loads),
                   !.text.visible = FALSE,
                   !.text.text = <<>>]

\* commitText() as a handler: the checkpoint and the re-render.
CommitText ==
  LET c == commitText(engine)
  IN Emit(c, IF rasterizes(textInput) THEN <<toDataURL(c.surface)>> ELSE <<>>,
          renderClosure, MaxCheckpoints)

\* ----------------------------------- CanvasLayer.tsx: pen, eraser and shape
\* The cell a stroke through the point pt marks.
markAt(pt) == IF pt \in CellPoints THEN {pixelAt(pt)} ELSE {}

\* applyContextStyles + ctx.stroke(): the eraser cuts out, the pen paints over.
stroke(surf, tool, p) == IF tool = ERASER THEN surf \ markAt(p) ELSE surf \cup markAt(p)

\* "{ x: (p1.x + p2.x) / 2, y: (p1.y + p2.y) / 2 }", in half pixels.
mid(p, q) == <<p[1] + q[1], p[2] + q[2]>>

\* Mutant: the segment starts at the sample p1 instead of the midpoint.
segmentFromSample(points) ==
  LET p1 == points[Len(points) - 2]
      p2 == points[Len(points) - 1]
      p3 == points[Len(points)]
  IN [from |-> mid(p1, p1), ctrl |-> p2, to |-> mid(p2, p3)]

\* draw(): "moveTo(mid1.x, mid1.y); quadraticCurveTo(p2.x, p2.y, mid2.x, mid2.y)"
\* for the last three samples p1, p2, p3 of the path.
segmentOf(points) ==
  LET p1 == points[Len(points) - 2]
      p2 == points[Len(points) - 1]
      p3 == points[Len(points)]
  IN [from |-> mid(p1, p2), ctrl |-> p2, to |-> mid(p2, p3)]

\* draw(): the quadratic segment from mid(p1,p2) to mid(p2,p3) with control
\* point p2, drawn once the path has three samples.  It covers the pixel of p2.
drawSegment(surf, tool, points) ==
  IF Len(points) < 3 THEN surf ELSE stroke(surf, tool, segmentOf(points).ctrl)

\* stopDrawing(): the final segment from the last midpoint to the last sample,
\* drawn only when the path has more than two samples.
flushStroke(surf, tool, points) ==
  IF tool \in {PEN, ERASER} /\ Len(points) > 2 THEN stroke(surf, tool, Last(points)) ELSE surf

Max(a, b) == IF a > b THEN a ELSE b

\* draw() with the shape tool: the outline of the rectangle (activeShape is
\* 'rectangle', its initial value) from the press point to the pointer,
\* stroked over the snapshot; a rectangle without extent has no outline.
shapeCells(from, to) ==
  IF from = to THEN {}
  ELSE borderCells(Min(from[1], to[1]), Min(from[2], to[2]),
                   Max(Abs(to[1] - from[1]), 1), Max(Abs(to[2] - from[2]), 1))

\* Mutant: the preview is stroked over what the surface holds.
putImageDataKeeps(surf, snapshot) == surf \cup snapshot

\* ctx.putImageData(snapshotRef.current, 0, 0): the surface becomes the snapshot.
putImageData(surf, snapshot) == snapshot

\* Mutant: only the pen and the eraser save at the release.
savesOnReleasePenOnly(tool) == tool \in {PEN, ERASER}

\* stopDrawing(): "if (activeTool !== ToolType.TEXT && canvasRef.current)".
savesOnRelease(tool) == tool # TEXT

\* startDrawing(e) at the point pt.  The canvas receives no pointer events
\* while the tool is POINTER (pointer-events-none).
StartDrawing(pt) ==
  /\ activeTool # POINTER
  /\ isDrawing' = IF activeTool = TEXT THEN isDrawing ELSE TRUE
  /\ IF activeTool = TEXT
       THEN IF textInput.visible
              THEN /\ CommitText
                   /\ UNCHANGED <<lastPos, startPos, snapshotRef, clipboardRef, laserPointsRef>>
              ELSE /\ textInput' = [x |-> pt[1], y |-> pt[2], text |-> <<>>, visible |-> TRUE]
                   /\ UNCHANGED <<slides, currentSlideIndex, drawings, history, thumbLoads,
                                  emitted, surface, pointsRef, skipNextRedraw, imgLoads,
                                  lastPos, startPos, snapshotRef, selectionRef, bgSnapshotRef,
                                  clipboardRef, selectionMenu, laserPointsRef>>
       ELSE IF activeTool = LASER
       THEN /\ laserPointsRef' = <<>>
            /\ UNCHANGED <<slides, currentSlideIndex, drawings, history, thumbLoads, emitted,
                           surface, pointsRef, skipNextRedraw, imgLoads, lastPos, startPos, snapshotRef, selVars>>
       ELSE IF activeTool = SELECT
         THEN IF selectionRef # <<>> /\ insideSelection(pt, selectionRef[1])
                THEN /\ lastPos' = pt
                     /\ selectionMenu' = FALSE
                     /\ UNCHANGED <<slides, currentSlideIndex, drawings, history, thumbLoads,
                                    emitted, surface, pointsRef, skipNextRedraw, imgLoads,
                                    startPos, snapshotRef, selectionRef, bgSnapshotRef,
                                    clipboardRef, textInput, laserPointsRef>>
                ELSE LET live == selectionRef # <<>>
                         c == IF live THEN commitSelection(engine) ELSE engine
                     IN /\ startPos' = pt
                        /\ snapshotRef' = <<c.surface>>
                        /\ Emit(c, IF live THEN <<toDataURL(c.surface)>> ELSE <<>>,
                                renderClosure, MaxSelCheckpoints)
                        /\ UNCHANGED <<lastPos, clipboardRef, laserPointsRef>>
         ELSE /\ pointsRef' = <<pt>>
              /\ lastPos' = pt
              /\ startPos' = pt
              /\ snapshotRef' = IF activeTool = SHAPE THEN <<surface>> ELSE snapshotRef
              /\ UNCHANGED <<slides, currentSlideIndex, drawings, history, thumbLoads, emitted,
                             surface, skipNextRedraw, imgLoads, selVars, laserPointsRef>>
  /\ gesturePos' = IF activeTool = SELECT THEN pt ELSE gesturePos
  /\ UNCHANGED <<activeTool, viewVars, laserCanvas, rafPending, laserReqRef, now, scriptVars>>

\* draw(e) at the point pt.
Draw(pt) ==
  /\ activeTool # POINTER
  /\ IF activeTool = LASER
       THEN /\ Len(laserPointsRef) < MaxLaserPoints
            /\ laserPointsRef' = Append(laserPointsRef, [x |-> pt, time |-> now])
            /\ UNCHANGED <<pointsRef, surface, imgLoads, lastPos, startPos, snapshotRef, selVars>>
       ELSE IF ~isDrawing \/ activeTool = TEXT
         THEN UNCHANGED <<laserPointsRef, pointsRef, surface, imgLoads, lastPos, startPos, snapshotRef, selVars>>
       ELSE IF activeTool = SELECT
         THEN IF selectionRef # <<>>
                THEN IF bgSnapshotRef = <<>> \/ lastPos = <<>>
                       THEN UNCHANGED <<laserPointsRef, pointsRef, surface, imgLoads, lastPos, startPos, snapshotRef,
                                        selVars>>
                       ELSE LET s == selectionRef[1]
                                moved == [s EXCEPT !.x = s.x + (pt[1] - lastPos[1]),
                                                   !.y = s.y + (pt[2] - lastPos[2])]
                            IN /\ selectionRef' = <<moved>>
                               /\ lastPos' = pt
                               /\ surface' = redrawScene(surface, bgSnapshotRef, <<moved>>)
                               /\ imgLoads' = markStale(imgLoads)
                               /\ UNCHANGED <<laserPointsRef, pointsRef, startPos, snapshotRef,
                                              bgSnapshotRef, clipboardRef, selectionMenu,
                                              textInput>>
                ELSE IF startPos = <<>> \/ snapshotRef = <<>>
                       THEN UNCHANGED <<laserPointsRef, pointsRef, surface, imgLoads, lastPos, startPos, snapshotRef,
                                        selVars>>
                       ELSE /\ surface' = snapshotRef[1] \cup previewCells(startPos, pt)
                            /\ imgLoads' = markStale(imgLoads)
                            /\ UNCHANGED <<laserPointsRef, pointsRef, lastPos, startPos, snapshotRef, selVars>>
       ELSE IF activeTool = SHAPE
         THEN IF startPos = <<>> \/ snapshotRef = <<>>
                THEN UNCHANGED <<laserPointsRef, pointsRef, surface, imgLoads, lastPos, startPos,
                                 snapshotRef, selVars>>
                ELSE /\ surface' = putImageData(surface, snapshotRef[1]) \cup shapeCells(startPos, pt)
                     /\ imgLoads' = markStale(imgLoads)
                     /\ UNCHANGED <<laserPointsRef, pointsRef, lastPos, startPos, snapshotRef,
                                    selVars>>
         ELSE /\ Len(pointsRef) < MaxPoints
              /\ pointsRef' = Append(pointsRef, pt)
              /\ surface' = drawSegment(surface, activeTool, pointsRef')
              /\ imgLoads' = IF Len(pointsRef') < 3 THEN imgLoads ELSE markStale(imgLoads)
              /\ lastPos' = IF Len(pointsRef') < 3 THEN lastPos ELSE pt
              /\ UNCHANGED <<laserPointsRef, startPos, snapshotRef, selVars>>
  /\ gesturePos' = IF activeTool = SELECT /\ isDrawing THEN pt ELSE gesturePos
  /\ UNCHANGED <<appVars, isDrawing, skipNextRedraw, viewVars, laserCanvas, rafPending,
                 laserReqRef, now, emitted, scriptVars>>

\* Mutant: a release with the laser goes on to the flush and the checkpoint.
stopsBeforeFlushPenOnly(tool, drawing) == ~drawing

\* stopDrawing()'s early returns: "if (activeTool === ToolType.LASER) return"
\* and "if (!isDrawing && activeTool !== ToolType.SELECT) return".
stopsBeforeFlush(tool, drawing) == tool = LASER \/ (~drawing /\ tool # SELECT)

\* stopDrawing() with the selection tool and no floating selection: the drag
\* is turned into a selection, spanned by startPos and lastPos.
liftSelection(c) ==
  LET x == Min(startPos[1], lastPos[1])
      y == Min(startPos[2], lastPos[2])
      w == Abs(lastPos[1] - startPos[1])
      h == Abs(lastPos[2] - startPos[2])
      restored == snapshotRef[1]
      hole == clearRect(restored, x, y, w, h)
      sel == <<[canvas |-> getImageData(restored, x, y, w, h), x |-> x, y |-> y, w |-> w, h |-> h]>>
  IN IF tooSmall(w, h)
       THEN [c EXCEPT !.surface = restored, !.loads = markStale(c.loads)]
       ELSE [c EXCEPT !.surface = redrawScene(hole, <<hole>>, sel),
                      !.sel = sel, !.bg = <<hole>>, !.menu = TRUE,
                      !.loads = markStale(c.loads)]

\* stopDrawing(): mouse up, mouse leave or touch end.
StopDrawing ==
  /\ activeTool # POINTER
  /\ isDrawing' = FALSE
  /\ IF stopsBeforeFlush(activeTool, isDrawing)
       THEN UNCHANGED <<slides, currentSlideIndex, drawings, history, thumbLoads, surface,
                        pointsRef, skipNextRedraw, imgLoads, emitted, lastPos, startPos, snapshotRef, selVars>>
       ELSE IF activeTool = SELECT
         THEN IF selectionRef # <<>>
                THEN /\ selectionMenu' = TRUE
                     /\ pointsRef' = <<>>
                     /\ UNCHANGED <<slides, currentSlideIndex, drawings, history, thumbLoads,
                                    surface, skipNextRedraw, imgLoads, emitted, lastPos, startPos, snapshotRef,
                                    selectionRef, bgSnapshotRef, clipboardRef, textInput>>
                ELSE IF startPos # <<>> /\ lastPos # <<>> /\ snapshotRef # <<>>
                       THEN LET c == liftSelection([engine EXCEPT !.points = <<>>])
                            IN /\ Emit(c, <<>>, renderClosure, MaxSelCheckpoints)
                               /\ snapshotRef' = <<>>
                               /\ IF c.sel = <<>>
                                    THEN UNCHANGED <<startPos, lastPos>>
                                    ELSE startPos' = <<>> /\ lastPos' = <<>>
                               /\ UNCHANGED clipboardRef
                       ELSE /\ startPos' = <<>>
                            /\ lastPos' = <<>>
                            /\ snapshotRef' = <<>>
                            /\ pointsRef' = <<>>
                            /\ UNCHANGED <<slides, currentSlideIndex, drawings, history,
                                           thumbLoads, surface, skipNextRedraw, imgLoads,
                                           emitted, selVars>>
         ELSE LET flushed == flushStroke(surface, activeTool, pointsRef)
                  loads == IF activeTool \in {PEN, ERASER} /\ Len(pointsRef) > 2
                             THEN markStale(imgLoads) ELSE imgLoads
                  saves == savesOnRelease(activeTool)
                  blob == toDataURL(flushed)
              IN /\ Emit([engine EXCEPT !.skip = saves \/ skipNextRedraw, !.surface = flushed,
                                        !.points = <<>>, !.loads = loads],
                         IF saves THEN <<blob>> ELSE <<>>, renderClosure, MaxCheckpoints)
                 /\ lastPos' = <<>>
                 /\ startPos' = <<>>
                 /\ snapshotRef' = <<>>
                 /\ UNCHANGED clipboardRef
  /\ gesturePos' = IF activeTool = SELECT THEN <<>> ELSE gesturePos
  /\ UNCHANGED <<activeTool, viewVars, laserVars, scriptVars>>

\* Mutant: the effect leaves a floating selection as it is.
useEffectActiveToolKeepsSelection(t, cancels) ==
  /\ LET liveText == t # TEXT /\ textInput.visible
         c == IF liveText THEN commitText(engine) ELSE engine
     IN Emit(c, IF liveText /\ rasterizes(textInput) THEN <<toDataURL(c.surface)>> ELSE <<>>,
             renderClosure, MaxCheckpoints)
  /\ LET kept == {f \in rafPending : ~cancels \/ f.id # laserReqRef}
         id == CHOOSE n \in 1..(Cardinality(kept) + 1) : \A f \in kept : f.id # n
     IN IF t = LASER
          THEN /\ rafPending' = kept \cup {[id |-> id, tool |-> t]}
               /\ laserReqRef' = id
          ELSE /\ rafPending' = kept
               /\ UNCHANGED laserReqRef

\* The effects that depend on activeTool, after the tool has become t: a
\* floating selection is committed unless t is SELECT, an open text input is
\* committed unless t is TEXT, the cleanup of the trail loop cancels the frame
\* laserReqRef names, and the new effect requests a frame when t is LASER.
\* (No specification below holds a selection and an open text input at once.)
useEffectActiveTool(t, cancels) ==
  /\ LET liveSel == t # SELECT /\ selectionRef # <<>>
         liveText == t # TEXT /\ textInput.visible
         c == IF liveSel THEN commitSelection(engine)
              ELSE IF liveText THEN commitText(engine) ELSE engine
         saves == liveSel \/ (liveText /\ rasterizes(textInput))
     IN /\ ~(liveSel /\ liveText)
        /\ Emit(c, IF saves THEN <<toDataURL(c.surface)>> ELSE <<>>, renderClosure,
                IF liveSel THEN MaxSelCheckpoints ELSE MaxCheckpoints)
  /\ LET kept == {f \in rafPending : ~cancels \/ f.id # laserReqRef}
         id == CHOOSE n \in 1..(Cardinality(kept) + 1) : \A f \in kept : f.id # n
     IN IF t = LASER
          THEN /\ rafPending' = kept \cup {[id |-> id, tool |-> t]}
               /\ laserReqRef' = id
          ELSE /\ rafPending' = kept
               /\ UNCHANGED laserReqRef

\* Mutant: the cleanup of the trail loop cancels nothing.
SetToolNoCancel(t) ==
  /\ t # activeTool
  /\ activeTool' = t
  /\ useEffectActiveTool(t, FALSE)
  /\ UNCHANGED <<isDrawing, viewVars, dragVars, clipboardRef, laserPointsRef, laserCanvas,
                 now, scriptVars>>

\* Toolbar.onToolChange(t) with the re-render and its effects.
SetTool(t) ==
  /\ t # activeTool
  /\ activeTool' = t
  /\ useEffectActiveTool(t, TRUE)
  /\ UNCHANGED <<isDrawing, viewVars, dragVars, clipboardRef, laserPointsRef, laserCanvas,
                 now, scriptVars>>

\* ----------------------------------- CanvasLayer.tsx: the selection's menu
\* "Done": commitSelection().
MenuDone ==
  /\ selectionMenu
  /\ LET live == selectionRef # <<>>
         c == IF live THEN commitSelection(engine) ELSE engine
     IN Emit(c, IF live THEN <<toDataURL(c.surface)>> ELSE <<>>, renderClosure,
             MaxSelCheckpoints)
  /\ UNCHANGED <<activeTool, isDrawing, viewVars, dragVars, clipboardRef, laserVars,
                 scriptVars>>

\* "Delete": deleteSelection().
MenuDelete ==
  /\ selectionMenu
  /\ LET live == bgSnapshotRef # <<>>
         c == IF live THEN deleteSelection(engine) ELSE engine
     IN Emit(c, IF live THEN <<toDataURL(c.surface)>> ELSE <<>>, renderClosure,
             MaxSelCheckpoints)
  /\ UNCHANGED <<activeTool, isDrawing, viewVars, dragVars, clipboardRef, laserVars,
                 scriptVars>>

\* "Cut": cutSelection() = copySelection(); deleteSelection().
MenuCut ==
  /\ selectionMenu
  /\ clipboardRef' = IF selectionRef # <<>> THEN <<copySelection(selectionRef[1])>>
                     ELSE clipboardRef
  /\ LET live == bgSnapshotRef # <<>>
         c == IF live THEN deleteSelection(engine) ELSE engine
     IN Emit(c, IF live THEN <<toDataURL(c.surface)>> ELSE <<>>, renderClosure,
             MaxSelCheckpoints)
  /\ UNCHANGED <<activeTool, isDrawing, viewVars, dragVars, laserVars, scriptVars>>

\* Mutant: the "Copy / Duplicate" button also copies to the clipboard.
MenuDuplicateCopies ==
  /\ selectionMenu
  /\ IF selectionRef = <<>> \/ bgSnapshotRef = <<>>
       THEN UNCHANGED <<surface, imgLoads, selVars>>
       ELSE LET s == selectionRef[1]
                stamped == drawImage(bgSnapshotRef[1], s.canvas, s.x, s.y)
                moved == [s EXCEPT !.x = s.x + DUPLICATE_OFFSET, !.y = s.y + DUPLICATE_OFFSET]
            IN /\ moved.x <= MaxOffset /\ moved.y <= MaxOffset
               /\ bgSnapshotRef' = <<stamped>>
               /\ selectionRef' = <<moved>>
               /\ selectionMenu' = TRUE
               /\ surface' = redrawScene(stamped, <<stamped>>, <<moved>>)
               /\ imgLoads' = markStale(imgLoads)
               /\ clipboardRef' = <<copySelection(s)>>
               /\ UNCHANGED textInput
  /\ UNCHANGED <<appVars, isDrawing, pointsRef, skipNextRedraw, viewVars, dragVars, laserVars,
                 emitted, scriptVars>>

\* "Copy / Duplicate": duplicateSelection().
MenuDuplicate ==
  /\ selectionMenu
  /\ IF selectionRef = <<>> \/ bgSnapshotRef = <<>>
       THEN UNCHANGED <<surface, imgLoads, selVars>>
       ELSE LET s == selectionRef[1]
                stamped == drawImage(bgSnapshotRef[1], s.canvas, s.x, s.y)
                moved == [s EXCEPT !.x = s.x + DUPLICATE_OFFSET, !.y = s.y + DUPLICATE_OFFSET]
            IN /\ moved.x <= MaxOffset /\ moved.y <= MaxOffset
               /\ bgSnapshotRef' = <<stamped>>
               /\ selectionRef' = <<moved>>
               /\ selectionMenu' = TRUE
               /\ surface' = redrawScene(stamped, <<stamped>>, <<moved>>)
               /\ imgLoads' = markStale(imgLoads)
               /\ UNCHANGED <<clipboardRef, textInput>>
  /\ UNCHANGED <<appVars, isDrawing, pointsRef, skipNextRedraw, viewVars, dragVars, laserVars,
                 emitted, scriptVars>>

\* A colour of the colour picker: changeSelectionColor(color).
MenuRecolor(color) ==
  /\ selectionMenu
  /\ IF selectionRef = <<>>
       THEN UNCHANGED <<surface, imgLoads, selVars>>
       ELSE LET s == selectionRef[1]
                sel == <<[s EXCEPT !.canvas = recolor(s.canvas, color)]>>
            IN /\ selectionRef' = sel
               /\ surface' = redrawScene(surface, bgSnapshotRef, sel)
               /\ imgLoads' = markStale(imgLoads)
               /\ UNCHANGED <<bgSnapshotRef, clipboardRef, selectionMenu, textInput>>
  /\ UNCHANGED <<appVars, isDrawing, pointsRef, skipNextRedraw, viewVars, dragVars, laserVars,
                 emitted, scriptVars>>

\* ----------------------------------- CanvasLayer.tsx: the text input overlay
\* onChange of the textarea: the character ch is typed (Shift+Enter types a
\* line break).
TextChange(ch) ==
  /\ textInput.visible
  /\ Len(textInput.text) < MaxText
  /\ textInput' = [textInput EXCEPT !.text = Append(@, ch)]
  /\ UNCHANGED <<appVars, canvasVars, viewVars, dragVars, selectionRef, bgSnapshotRef,
                 clipboardRef, selectionMenu, laserVars, emitted, scriptVars>>

\* onKeyDown of the textarea with Enter and without Shift: commitText().
TextEnter ==
  /\ textInput.visible
  /\ CommitText
  /\ UNCHANGED <<activeTool, isDrawing, viewVars, dragVars, clipboardRef, laserVars,
                 scriptVars>>

\* onBlur of the textarea: commitText().
TextBlur ==
  /\ textInput.visible
  /\ CommitText
  /\ UNCHANGED <<activeTool, isDrawing, viewVars, dragVars, clipboardRef, laserVars,
                 scriptVars>>

\* ------------------------------------ CanvasLayer.tsx: keyboard shortcuts
\* Ctrl+C with a floating selection: copySelection().
KeyCopy ==
  /\ selectionRef # <<>>
  /\ clipboardRef' = <<copySelection(selectionRef[1])>>
  /\ UNCHANGED <<appVars, canvasVars, viewVars, dragVars, selectionRef, bgSnapshotRef,
                 selectionMenu, textInput, laserVars, emitted, scriptVars>>

\* Ctrl+X with a floating selection: cutSelection().
KeyCut ==
  /\ selectionRef # <<>>
  /\ clipboardRef' = <<copySelection(selectionRef[1])>>
  /\ LET live == bgSnapshotRef # <<>>
         c == IF live THEN deleteSelection(engine) ELSE engine
     IN Emit(c, IF live THEN <<toDataURL(c.surface)>> ELSE <<>>, keydownClosure,
             MaxSelCheckpoints)
  /\ UNCHANGED <<activeTool, isDrawing, viewVars, dragVars, laserVars, scriptVars>>

\* Delete or Backspace with a floating selection: deleteSelection().
KeyDelete ==
  /\ selectionRef # <<>>
  /\ LET live == bgSnapshotRef # <<>>
         c == IF live THEN deleteSelection(engine) ELSE engine
     IN Emit(c, IF live THEN <<toDataURL(c.surface)>> ELSE <<>>, keydownClosure,
             MaxSelCheckpoints)
  /\ UNCHANGED <<activeTool, isDrawing, viewVars, dragVars, clipboardRef, laserVars,
                 scriptVars>>

\* Mutant: the pasted selection is put at the centre point of the viewport.
pastePlacementCorner(w, h) == [x |-> width \div 2, y |-> height \div 2]

\* "centerX = width / 2 - w / 2; centerY = height / 2 - h / 2"
pastePlacement(w, h) == [x |-> (width - w) \div 2, y |-> (height - h) \div 2]

\* pasteSelection() on the engine state c, with a clipboard.
pasteSelection(c) ==
  LET committed == IF c.sel # <<>> THEN commitSelection(c) ELSE c
      clip == clipboardRef[1]
      at == pastePlacement(clip.w, clip.h)
      sel == <<[canvas |-> copyBitmap(clip.canvas, clip.w, clip.h),
                x |-> at.x, y |-> at.y, w |-> clip.w, h |-> clip.h]>>
      bg == <<committed.surface>>
  IN [committed EXCEPT !.surface = redrawScene(committed.surface, bg, sel),
                       !.sel = sel, !.bg = bg, !.menu = TRUE,
                       !.loads = markStale(c.loads)]

\* Ctrl+V: pasteSelection(); nothing happens without a clipboard.
KeyPaste ==
  /\ clipboardRef # <<>>
  /\ LET live == selectionRef # <<>>
         c == pasteSelection(engine)
     IN Emit(c, IF live THEN <<toDataURL(commitSelection(engine).surface)>> ELSE <<>>,
             keydownClosure, MaxSelCheckpoints)
  /\ UNCHANGED <<activeTool, isDrawing, viewVars, dragVars, clipboardRef, laserVars,
                 scriptVars>>

\* ------------------------------------------------- App.tsx: the viewport
\* "{containerSize.width > 0 && ( <CanvasLayer ... /> )}": width and height are
\* containerSize, which the engine receives as its props.
canvasMounted == width > 0

\* The engine state of a CanvasLayer that has just been constructed.
pristine == [skip |-> FALSE, surface |-> {}, points |-> <<>>, loads |-> <<>>,
             sel |-> <<>>, bg |-> <<>>, menu |-> FALSE, text |-> noTextInput]

\* updateSize(): the container measures w by h.  Without a width the
\* CanvasLayer is unmounted, and its state is gone; with a width after none it
\* is constructed and its effects run for the first time; with another size
\* the canvases are resized, which clears them, and the reload effect runs
\* again.  The same size re-renders nothing.
UpdateSize(w, h) ==
  /\ width' = w
  /\ height' = h
  /\ IF w > 0 /\ width > 0 /\ <<w, h>> = <<width, height>>
       THEN UNCHANGED <<canvasVars, dragVars, selVars, laserPointsRef, laserCanvas,
                        rafPending, laserReqRef>>
       ELSE LET mounts == w > 0 /\ width = 0
                r == IF w = 0 THEN pristine
                     ELSE IF mounts THEN useEffectSavedDrawing(pristine, currentDrawing)
                     ELSE useEffectSavedDrawing([engine EXCEPT !.surface = {}], currentDrawing)
                kept == IF mounts THEN rafPending
                        ELSE {f \in rafPending : w > 0 \/ f.id # laserReqRef}
                id == CHOOSE n \in 1..(Cardinality(kept) + 1) : \A f \in kept : f.id # n
            IN /\ Len(r.loads) <= MaxImgLoads
               /\ skipNextRedraw' = r.skip
               /\ surface' = r.surface
               /\ pointsRef' = r.points
               /\ imgLoads' = r.loads
               /\ selectionRef' = r.sel
               /\ bgSnapshotRef' = r.bg
               /\ selectionMenu' = r.menu
               /\ textInput' = r.text
               /\ laserCanvas' = <<>>
               /\ IF w > 0 /\ width > 0
                    THEN UNCHANGED <<isDrawing, dragVars, clipboardRef, laserPointsRef,
                                     rafPending, laserReqRef>>
                    ELSE /\ isDrawing' = FALSE
                         /\ lastPos' = <<>>
                         /\ startPos' = <<>>
                         /\ snapshotRef' = <<>>
                         /\ gesturePos' = <<>>
                         /\ clipboardRef' = <<>>
                         /\ laserPointsRef' = <<>>
                         /\ IF mounts /\ activeTool = LASER
                              THEN /\ rafPending' = kept \cup {[id |-> id, tool |-> LASER]}
                                   /\ laserReqRef' = id
                              ELSE /\ rafPending' = kept
                                   /\ laserReqRef' = 0
  /\ UNCHANGED <<appVars, dpr, now, emitted, scriptVars>>

\* Toolbar.onToolChange(t) while no CanvasLayer is mounted: no effect runs.
SetToolUnmounted(t) ==
  /\ t # activeTool
  /\ activeTool' = t
  /\ UNCHANGED <<slides, currentSlideIndex, drawings, history, thumbLoads, canvasVars,
                 viewVars, dragVars, selVars, laserVars, emitted, scriptVars>>

\* ------------------------------------- App.tsx handlers with their re-render
Undo ==
  /\ handleUndo
  /\ Rerender(engine)
  /\ UNCHANGED <<activeTool, isDrawing, viewVars, dragVars, clipboardRef, laserVars, emitted,
                 scriptVars>>

Redo ==
  /\ handleRedo
  /\ Rerender(engine)
  /\ UNCHANGED <<activeTool, isDrawing, viewVars, dragVars, clipboardRef, laserVars, emitted,
                 scriptVars>>

ClearSlide ==
  /\ handleClearSlide
  /\ Rerender(engine)
  /\ UNCHANGED <<activeTool, isDrawing, viewVars, dragVars, clipboardRef, laserVars, emitted,
                 scriptVars>>

NextSlide ==
  /\ handleNextSlide
  /\ Rerender(engine)
  /\ UNCHANGED <<activeTool, isDrawing, viewVars, dragVars, clipboardRef, laserVars, emitted,
                 scriptVars>>

PrevSlide ==
  /\ handlePrevSlide
  /\ Rerender(engine)
  /\ UNCHANGED <<activeTool, isDrawing, viewVars, dragVars, clipboardRef, laserVars, emitted,
                 scriptVars>>

SlideSelect(index) ==
  /\ handleSlideSelect(index)
  /\ Rerender(engine)
  /\ UNCHANGED <<activeTool, isDrawing, viewVars, dragVars, clipboardRef, laserVars, emitted,
                 scriptVars>>

AddSlide ==
  /\ handleAddSlide
  /\ Rerender(engine)
  /\ UNCHANGED <<activeTool, isDrawing, viewVars, dragVars, clipboardRef, laserVars, emitted,
                 scriptVars>>

DeleteSlide(id) ==
  /\ handleDeleteSlide(id)
  /\ Rerender(engine)
  /\ UNCHANGED <<activeTool, isDrawing, viewVars, dragVars, clipboardRef, laserVars, emitted,
                 scriptVars>>

FileUpload(n) ==
  /\ handleFileUpload(n)
  /\ Rerender(engine)
  /\ UNCHANGED <<activeTool, isDrawing, viewVars, dragVars, clipboardRef, laserVars, emitted,
                 scriptVars>>

\* img.onload of a pending decode: drawImage composites the blob's pixels over
\* whatever the surface holds by then.
ImgLoaded(i) ==
  /\ surface' = surface \cup decodeImage(imgLoads[i].src)
  /\ imgLoads' = RemoveAt(imgLoads, i)
  /\ UNCHANGED <<appVars, isDrawing, pointsRef, skipNextRedraw, viewVars, dragVars, selVars,
                 laserVars, emitted, scriptVars>>

\* inkImg.onload of a pending thumbnail generation.
ThumbLoaded(i) ==
  /\ slides' = withThumbnail(slides, thumbLoads[i].slideId, thumbLoads[i].dataUrl)
  /\ thumbLoads' = RemoveAt(thumbLoads, i)
  /\ UNCHANGED <<currentSlideIndex, activeTool, drawings, history, canvasVars, viewVars,
                 dragVars, selVars, laserVars, emitted, scriptVars>>

\* ---------------------------------------------------------- specification
\* The state after construction in a viewport of w by h CSS pixels on a
\* display with device pixel ratio d.
InitView(w, h, d) ==
  /\ slides = DEMO_SLIDES
  /\ currentSlideIndex = 1
  /\ activeTool = POINTER
  /\ drawings = <<>>
  /\ history = <<>>
  /\ thumbLoads = <<>>
  /\ surface = {}
  /\ isDrawing = FALSE
  /\ pointsRef = <<>>
  /\ skipNextRedraw = FALSE
  /\ imgLoads = <<>>
  /\ width = w
  /\ height = h
  /\ dpr = d
  /\ lastPos = <<>>
  /\ startPos = <<>>
  /\ snapshotRef = <<>>
  /\ gesturePos = <<>>
  /\ selectionRef = <<>>
  /\ bgSnapshotRef = <<>>
  /\ clipboardRef = <<>>
  /\ selectionMenu = FALSE
  /\ textInput = noTextInput
  /\ laserPointsRef = <<>>
  /\ laserCanvas = <<>>
  /\ rafPending = {}
  /\ laserReqRef = 0
  /\ now = 0
  /\ emitted = 0
  /\ lastOp = "init"
  /\ phase = "pre"
  /\ nPre = 0
  /\ nRun = 0
  /\ nUndo = 0
  /\ nRedo = 0
  /\ preLog = <<>>
  /\ snap = [drawing |-> 0, past |-> <<>>, future |-> <<>>]
  /\ nEvents = 0

\* One row of NPixels cells on a display of ratio 1.
Init == InitView(NPixels * CellPx, CellPx, 1)

\* ------------------------------------------------------------ the trail
\* Mutant: the filter keeps the points that are exactly 300 ms old.
renderLaserKeeps300(f) ==
  LET kept == SelectSeq(laserPointsRef, LAMBDA pt : now - pt.time <= LASER_WINDOW)
      drawn == IF Len(kept) > 1 THEN kept ELSE <<>>
      rest == rafPending \ {f}
      id == CHOOSE n \in 1..(Cardinality(rest) + 1) : \A g \in rest : g.id # n
  IN /\ laserPointsRef' = kept
     /\ IF f.tool = LASER
          THEN /\ laserCanvas' = drawn
               /\ rafPending' = rest \cup {[id |-> id, tool |-> f.tool]}
               /\ laserReqRef' = id
          ELSE /\ laserCanvas' = <<>>
               /\ rafPending' = rest
               /\ UNCHANGED laserReqRef

\* renderLaser(), the frame callback f.  f.tool is the activeTool its closure
\* captured when the effect that defined it ran.
renderLaser(f) ==
  LET kept == SelectSeq(laserPointsRef, LAMBDA pt : now - pt.time < LASER_WINDOW)
      drawn == IF Len(kept) > 1 THEN kept ELSE <<>>
      rest == rafPending \ {f}
      id == CHOOSE n \in 1..(Cardinality(rest) + 1) : \A g \in rest : g.id # n
  IN /\ laserPointsRef' = kept
     /\ IF f.tool = LASER
          THEN /\ laserCanvas' = drawn
               /\ rafPending' = rest \cup {[id |-> id, tool |-> f.tool]}
               /\ laserReqRef' = id
          ELSE /\ laserCanvas' = <<>>
               /\ rafPending' = rest
               /\ UNCHANGED laserReqRef

RenderFrame(f) ==
  /\ renderLaser(f)
  /\ UNCHANGED <<appVars, canvasVars, viewVars, dragVars, selVars, now, emitted, scriptVars>>

\* Time passes (100 ms).
Tick ==
  /\ now < MaxTime
  /\ now' = now + 1
  /\ UNCHANGED <<appVars, canvasVars, viewVars, dragVars, selVars, laserPointsRef, laserCanvas,
                 rafPending, laserReqRef, emitted, scriptVars>>

\* ---------------------------------------------------------- specifications
DrawTools == {POINTER, PEN, ERASER}

\* The engine with the deck: pointer events, tool switches, undo/redo/clear and
\* slide switches in any order.  A thumbnail generation completes before the
\* next user event (the thumbnail never feeds back into the engine).
quietThumbs == thumbLoads = <<>>

Next ==
  \/ quietThumbs /\ \E pt \in CellPoints : StartDrawing(pt) /\ UNCHANGED nEvents
  \/ quietThumbs /\ \E pt \in CellPoints : Draw(pt) /\ UNCHANGED nEvents
  \/ quietThumbs /\ StopDrawing /\ UNCHANGED nEvents
  \/ quietThumbs /\ \E t \in DrawTools : SetTool(t) /\ UNCHANGED nEvents
  \/ quietThumbs /\ Undo /\ UNCHANGED nEvents
  \/ quietThumbs /\ Redo /\ UNCHANGED nEvents
  \/ quietThumbs /\ ClearSlide /\ UNCHANGED nEvents
  \/ quietThumbs /\ NextSlide /\ UNCHANGED nEvents
  \/ quietThumbs /\ PrevSlide /\ UNCHANGED nEvents
  \/ quietThumbs /\ \E i \in 1..Len(slides) : SlideSelect(i) /\ UNCHANGED nEvents
  \/ \E i \in 1..Len(imgLoads) : ImgLoaded(i) /\ UNCHANGED nEvents
  \/ \E i \in 1..Len(thumbLoads) : ThumbLoaded(i) /\ UNCHANGED nEvents

Spec == Init /\ [][Next]_vars

\* The trail renderer: the laser and the pointer tool, pointer events, frames
\* and the clock.
LaserTools == {POINTER, LASER, PEN}

\* The pointer stays over the first cell: the trail's window depends on the
\* times of the samples, not on their positions.
TrailPoints == {<<0, 0>>}

NextLaser ==
  \/ \E t \in LaserTools : SetTool(t) /\ UNCHANGED nEvents
  \/ \E pt \in TrailPoints : StartDrawing(pt) /\ UNCHANGED nEvents
  \/ \E pt \in TrailPoints : Draw(pt) /\ UNCHANGED nEvents
  \/ StopDrawing /\ UNCHANGED nEvents
  \/ \E f \in rafPending : RenderFrame(f) /\ UNCHANGED nEvents
  \/ Tick /\ UNCHANGED nEvents

SpecLaser == Init /\ [][NextLaser]_vars

\* The selection tool on a square viewport of GridCells by GridCells cells, on
\* a display of either pixel ratio: pen, laser and selection tool, the
\* selection's menu, the keyboard shortcuts, undo/redo and slide switches.
SelectTools == {PEN, LASER, SELECT}
Colors == {1}

\* The pointer positions tried with the selection tool: two opposite corners
\* of the viewport, the pen's point and a point off the diagonal.
DragPoints == {<<0, 0>>, <<CellPx, CellPx>>, <<2 * CellPx, CellPx>>, <<width, height>>}

\* The pen is put down and moved at the corner of the middle cell.
PenPoints == {<<CellPx, CellPx>>}

\* Image decodes and thumbnail generations complete before the next user event.
quietLoads == thumbLoads = <<>> /\ imgLoads = <<>>

InitSelect == \E d \in DevicePixelRatios : InitView(GridCells * CellPx, GridCells * CellPx, d)

\* The tool is switched between gestures; during a gesture only from the pen
\* to the laser (a second touch on the toolbar while the first is down).
switchable(t) == ~isDrawing \/ (activeTool = PEN /\ t = LASER)

\* A user event, within the scenario's budget.
userEvent == nEvents < MaxEvents /\ nEvents' = nEvents + 1

NextSelect ==
  \/ quietLoads /\ userEvent /\ \E t \in SelectTools : switchable(t) /\ SetTool(t)
  \/ quietLoads /\ userEvent /\ activeTool = PEN /\ \E pt \in PenPoints : StartDrawing(pt)
  \/ quietLoads /\ userEvent /\ activeTool = PEN /\ \E pt \in PenPoints : Draw(pt)
  \/ quietLoads /\ userEvent /\ activeTool = SELECT /\ \E pt \in DragPoints : StartDrawing(pt)
  \/ quietLoads /\ userEvent /\ activeTool = SELECT /\ \E pt \in DragPoints : Draw(pt)
  \/ quietLoads /\ userEvent /\ StopDrawing
  \/ quietLoads /\ userEvent /\ ~isDrawing /\ MenuDone
  \/ quietLoads /\ userEvent /\ ~isDrawing /\ MenuDelete
  \/ quietLoads /\ userEvent /\ ~isDrawing /\ MenuCut
  \/ quietLoads /\ userEvent /\ ~isDrawing /\ MenuDuplicate
  \/ quietLoads /\ userEvent /\ ~isDrawing /\ \E color \in Colors : MenuRecolor(color)
  \/ quietLoads /\ userEvent /\ ~isDrawing /\ KeyCopy
  \/ quietLoads /\ userEvent /\ ~isDrawing /\ KeyCut
  \/ quietLoads /\ userEvent /\ ~isDrawing /\ KeyDelete
  \/ quietLoads /\ userEvent /\ ~isDrawing /\ KeyPaste
  \/ quietLoads /\ userEvent /\ ~isDrawing /\ Undo
  \/ quietLoads /\ userEvent /\ ~isDrawing /\ Redo
  \/ quietLoads /\ userEvent /\ ~isDrawing /\ currentSlideIndex = 1 /\ NextSlide
  \/ quietLoads /\ userEvent /\ ~isDrawing /\ PrevSlide
  \/ UNCHANGED nEvents /\ \E i \in 1..Len(imgLoads) : ImgLoaded(i)
  \/ UNCHANGED nEvents /\ \E i \in 1..Len(thumbLoads) : ThumbLoaded(i)

SpecSelect == InitSelect /\ [][NextSelect]_vars

\* The text tool and the pen on the square viewport, on a display of ratio 1.
TextTools == {PEN, TEXT}
Chars == {LETTER, SPACE, NEWLINE}

\* The pointer positions tried with the text tool; the pen and the eraser of
\* these scenarios stay at PenPoints.
TextPoints == {<<0, 0>>, <<CellPx, CellPx>>}

InitText == InitView(GridCells * CellPx, GridCells * CellPx, 1)

NextText ==
  \/ quietLoads /\ UNCHANGED nEvents /\ \E t \in TextTools : SetTool(t)
  \/ quietLoads /\ UNCHANGED nEvents /\ activeTool = TEXT /\ \E pt \in TextPoints : StartDrawing(pt)
  \/ quietLoads /\ UNCHANGED nEvents /\ activeTool = PEN /\ \E pt \in PenPoints : StartDrawing(pt)
  \/ quietLoads /\ UNCHANGED nEvents /\ activeTool = PEN /\ \E pt \in PenPoints : Draw(pt)
  \/ quietLoads /\ UNCHANGED nEvents /\ StopDrawing
  \/ quietLoads /\ UNCHANGED nEvents /\ \E ch \in Chars : TextChange(ch)
  \/ quietLoads /\ UNCHANGED nEvents /\ TextEnter
  \/ quietLoads /\ UNCHANGED nEvents /\ TextBlur
  \/ quietLoads /\ UNCHANGED nEvents /\ Undo
  \/ UNCHANGED nEvents /\ \E i \in 1..Len(imgLoads) : ImgLoaded(i)
  \/ UNCHANGED nEvents /\ \E i \in 1..Len(thumbLoads) : ThumbLoaded(i)

SpecText == InitText /\ [][NextText]_vars

\* The pen, the eraser and the shape tool on the same viewport.
ShapeTools == {PEN, ERASER, SHAPE}

\* The pointer positions tried with the shape tool: three points of the
\* diagonal, which span two different rectangles from one anchor.
ShapePoints == {<<0, 0>>, <<CellPx, CellPx>>, <<2 * CellPx, 2 * CellPx>>}
\* The shape tool is put down at the corner of the viewport.
AnchorPoints == {<<0, 0>>}

NextShape ==
  \/ quietLoads /\ UNCHANGED nEvents /\ \E t \in ShapeTools : SetTool(t)
  \/ quietLoads /\ UNCHANGED nEvents /\ activeTool = SHAPE /\ \E pt \in AnchorPoints : StartDrawing(pt)
  \/ quietLoads /\ UNCHANGED nEvents /\ activeTool = SHAPE /\ \E pt \in ShapePoints : Draw(pt)
  \/ quietLoads /\ UNCHANGED nEvents /\ activeTool # SHAPE /\ \E pt \in PenPoints : StartDrawing(pt)
  \/ quietLoads /\ UNCHANGED nEvents /\ activeTool # SHAPE /\ \E pt \in PenPoints : Draw(pt)
  \/ quietLoads /\ UNCHANGED nEvents /\ StopDrawing
  \/ quietLoads /\ UNCHANGED nEvents /\ Undo
  \/ UNCHANGED nEvents /\ \E i \in 1..Len(imgLoads) : ImgLoaded(i)
  \/ UNCHANGED nEvents /\ \E i \in 1..Len(thumbLoads) : ThumbLoaded(i)

SpecShape == InitText /\ [][NextShape]_vars

\* The viewport: the container is measured at 0 or CellPx pixels in either
\* dimension, starting before the first measurement; the pen and the laser.
ViewSizes == {0, CellPx}
ViewTools == {PEN, LASER}

InitUnsized == InitView(0, 0, 1)

NextView ==
  \/ quietLoads /\ UNCHANGED nEvents /\ \E w \in ViewSizes, h \in ViewSizes : UpdateSize(w, h)
  \/ quietLoads /\ UNCHANGED nEvents /\ canvasMounted /\ \E t \in ViewTools : SetTool(t)
  \/ quietLoads /\ UNCHANGED nEvents /\ ~canvasMounted /\ \E t \in ViewTools : SetToolUnmounted(t)
  \/ quietLoads /\ UNCHANGED nEvents /\ canvasMounted /\ \E pt \in CellPoints : StartDrawing(pt)
  \/ quietLoads /\ UNCHANGED nEvents /\ canvasMounted /\ \E pt \in CellPoints : Draw(pt)
  \/ quietLoads /\ UNCHANGED nEvents /\ canvasMounted /\ CellPoints # {} /\ StopDrawing
  \/ UNCHANGED nEvents /\ \E f \in rafPending : RenderFrame(f)
  \/ UNCHANGED nEvents /\ \E i \in 1..Len(imgLoads) : ImgLoaded(i)
  \/ UNCHANGED nEvents /\ \E i \in 1..Len(thumbLoads) : ThumbLoaded(i)

SpecView == InitUnsized /\ [][NextView]_vars

\* Editing the deck while the engine is in use: slides are added, deleted and
\* replaced by an upload between the gestures of the pen and the selection
\* tool and the shortcuts of the keyboard.
Files == 0..MaxFiles
SlideIds == 1..MaxSlideId
CornerPoints == {<<width, height>>}

editEvent == nEvents < MaxEditEvents /\ nEvents' = nEvents + 1

NextEdit ==
  \/ quietLoads /\ editEvent /\ \E t \in SelectTools : switchable(t) /\ SetTool(t)
  \/ quietLoads /\ editEvent /\ activeTool = PEN /\ \E pt \in PenPoints : StartDrawing(pt)
  \/ quietLoads /\ editEvent /\ activeTool = SELECT /\ \E pt \in CornerPoints : StartDrawing(pt)
  \/ quietLoads /\ editEvent /\ StopDrawing
  \/ quietLoads /\ editEvent /\ ~isDrawing /\ MenuDone
  \/ quietLoads /\ editEvent /\ ~isDrawing /\ KeyDelete
  \/ quietLoads /\ editEvent /\ ~isDrawing /\ AddSlide
  \/ quietLoads /\ editEvent /\ ~isDrawing /\ \E id \in SlideIds : DeleteSlide(id)
  \/ quietLoads /\ editEvent /\ ~isDrawing /\ \E n \in Files : FileUpload(n)
  \/ quietLoads /\ editEvent /\ ~isDrawing /\ NextSlide
  \/ UNCHANGED nEvents /\ \E i \in 1..Len(imgLoads) : ImgLoaded(i)
  \/ UNCHANGED nEvents /\ \E i \in 1..Len(thumbLoads) : ThumbLoaded(i)

SpecEdit == InitText /\ [][NextEdit]_vars

\* The pen and the eraser alone on the square viewport: strokes of up to
\* MaxPoints samples through three points.
StrokeTools == {PEN, ERASER}
StrokePoints == {<<0, 0>>, <<CellPx, CellPx>>, <<2 * CellPx, CellPx>>}

NextStroke ==
  \/ quietLoads /\ UNCHANGED nEvents /\ ~isDrawing /\ \E t \in StrokeTools : SetTool(t)
  \/ quietLoads /\ UNCHANGED nEvents /\ \E pt \in StrokePoints : StartDrawing(pt)
  \/ quietLoads /\ UNCHANGED nEvents /\ \E pt \in StrokePoints : Draw(pt)
  \/ quietLoads /\ UNCHANGED nEvents /\ StopDrawing
  \/ UNCHANGED nEvents /\ \E i \in 1..Len(thumbLoads) : ThumbLoaded(i)

SpecStroke == InitText /\ [][NextStroke]_vars

\* The deck alone (App.tsx): the engine is the environment that calls onSave
\* with any blob; the engine's own state is not read by these handlers and is
\* left out.  A thumbnail generation completes before the next request.
Blobs == 1..NBlobs

engineIdle == UNCHANGED <<activeTool, canvasVars, viewVars, dragVars, selVars, laserVars, nEvents>>
scriptIdle == UNCHANGED <<phase, nPre, nRun, nUndo, nRedo, preLog, snap>>

OnSave(newDataUrl) ==
  /\ emitted < MaxCheckpoints
  /\ emitted' = emitted + 1
  /\ lastOp' = "onSave"
  /\ handleSaveDrawing(newDataUrl)
  /\ engineIdle /\ scriptIdle

OnUndo ==
  /\ lastOp' = "onUndo"
  /\ handleUndo
  /\ UNCHANGED emitted /\ engineIdle /\ scriptIdle

OnRedo ==
  /\ lastOp' = "onRedo"
  /\ handleRedo
  /\ UNCHANGED emitted /\ engineIdle /\ scriptIdle

OnClearSlide ==
  /\ lastOp' = "onClearSlide"
  /\ handleClearSlide
  /\ UNCHANGED emitted /\ engineIdle /\ scriptIdle

OnNextSlide ==
  /\ lastOp' = "onNextSlide"
  /\ handleNextSlide
  /\ UNCHANGED emitted /\ engineIdle /\ scriptIdle

OnPrevSlide ==
  /\ lastOp' = "onPrevSlide"
  /\ handlePrevSlide
  /\ UNCHANGED emitted /\ engineIdle /\ scriptIdle

OnSelectSlide(index) ==
  /\ lastOp' = "onSelectSlide"
  /\ handleSlideSelect(index)
  /\ UNCHANGED emitted /\ engineIdle /\ scriptIdle

OnThumbLoaded(i) ==
  /\ lastOp' = "inkImg.onload"
  /\ slides' = withThumbnail(slides, thumbLoads[i].slideId, thumbLoads[i].dataUrl)
  /\ thumbLoads' = RemoveAt(thumbLoads, i)
  /\ UNCHANGED <<currentSlideIndex, drawings, history, emitted>>
  /\ engineIdle /\ scriptIdle

NextApp ==
  \/ quietThumbs /\ \E b \in Blobs : OnSave(b)
  \/ quietThumbs /\ OnUndo
  \/ quietThumbs /\ OnRedo
  \/ quietThumbs /\ OnClearSlide
  \/ quietThumbs /\ OnNextSlide
  \/ quietThumbs /\ OnPrevSlide
  \/ quietThumbs /\ \E i \in 1..Len(slides) : OnSelectSlide(i)
  \/ \E i \in 1..Len(thumbLoads) : OnThumbLoaded(i)

SpecApp == Init /\ [][NextApp]_vars

\* The deck with thumbnail generations in flight (App.tsx): checkpoints, undo,
\* redo and clear-slide arrive while generations are pending, and the pending
\* generations complete in any order.
NextThumb ==
  \/ \E b \in Blobs : OnSave(b)
  \/ OnUndo
  \/ OnRedo
  \/ OnClearSlide
  \/ \E i \in 1..Len(thumbLoads) : OnThumbLoaded(i)

SpecThumb == Init /\ [][NextThumb]_vars

\* The deck's slide list alone (App.tsx): slides are added, deleted, visited
\* and replaced by an upload, and checkpoints give the slides ink and history.
\* The refusal of a delete is recorded as the notification it raises.
OnAddSlide ==
  /\ lastOp' = "onAddSlide"
  /\ handleAddSlide
  /\ UNCHANGED emitted /\ engineIdle /\ scriptIdle

OnDeleteSlide(id) ==
  /\ lastOp' = IF Len(slides) <= 1 THEN "Cannot Delete" ELSE "onDeleteSlide"
  /\ handleDeleteSlide(id)
  /\ UNCHANGED emitted /\ engineIdle /\ scriptIdle

OnFileUpload(n) ==
  /\ lastOp' = "onFileUpload"
  /\ handleFileUpload(n)
  /\ UNCHANGED emitted /\ engineIdle /\ scriptIdle

NextDeck ==
  \/ quietThumbs /\ \E b \in Blobs : OnSave(b)
  \/ quietThumbs /\ OnAddSlide
  \/ quietThumbs /\ \E id \in SlideIds : OnDeleteSlide(id)
  \/ quietThumbs /\ \E n \in Files : OnFileUpload(n)
  \/ quietThumbs /\ OnNextSlide
  \/ quietThumbs /\ OnPrevSlide
  \/ quietThumbs /\ \E i \in 1..Len(slides) : OnSelectSlide(i)
  \/ \E i \in 1..Len(thumbLoads) : OnThumbLoaded(i)

SpecDeck == Init /\ [][NextDeck]_vars

\* The history manager at depth (App.tsx), one slide: checkpoints, possibly
\* one clear-slide, then a run of N consecutive checkpoints, N undo requests
\* and N redo requests.  The k-th checkpoint carries blob k (the handlers never
\* compare blobs), and a thumbnail generation completes before the next request.
lastN(s, n) == IF Len(s) <= n THEN s ELSE SubSeq(s, Len(s) - n + 1, Len(s))

slideState == [drawing |-> currentDrawing,
               past |-> historyOf(history, currentSlideId).past,
               future |-> historyOf(history, currentSlideId).future]

PreSave ==
  /\ phase = "pre"
  /\ nPre < MaxPre
  /\ nPre' = nPre + 1
  /\ emitted' = emitted + 1
  /\ lastOp' = "onSave"
  /\ handleSaveDrawing(emitted + 1)
  /\ engineIdle
  /\ UNCHANGED <<phase, nRun, nUndo, nRedo, preLog, snap>>

PreClear ==
  /\ phase = "pre"
  /\ currentDrawing # 0
  /\ phase' = "cleared"
  /\ lastOp' = "onClearSlide"
  /\ handleClearSlide
  /\ engineIdle
  /\ UNCHANGED <<emitted, nPre, nRun, nUndo, nRedo, preLog, snap>>

RunSave ==
  /\ phase \in {"pre", "cleared", "run"}
  /\ nRun < MaxRun
  /\ phase' = "run"
  /\ nRun' = nRun + 1
  /\ emitted' = emitted + 1
  /\ lastOp' = "onSave"
  /\ preLog' = Append(preLog, currentDrawing)
  /\ handleSaveDrawing(emitted + 1)
  /\ snap' = slideState'
  /\ engineIdle
  /\ UNCHANGED <<nPre, nUndo, nRedo>>

RunUndo ==
  /\ phase \in {"run", "undo"}
  /\ nUndo < nRun
  /\ phase' = "undo"
  /\ nUndo' = nUndo + 1
  /\ lastOp' = "onUndo"
  /\ handleUndo
  /\ engineIdle
  /\ UNCHANGED <<emitted, nPre, nRun, nRedo, preLog, snap>>

RunRedo ==
  /\ phase \in {"undo", "redo"}
  /\ nUndo = nRun
  /\ nRedo < nRun
  /\ phase' = "redo"
  /\ nRedo' = nRedo + 1
  /\ lastOp' = "onRedo"
  /\ handleRedo
  /\ engineIdle
  /\ UNCHANGED <<emitted, nPre, nRun, nUndo, preLog, snap>>

\* A new checkpoint after the undo/redo requests ends the scenario.
PostSave ==
  /\ phase \in {"undo", "redo"}
  /\ phase' = "post"
  /\ emitted' = emitted + 1
  /\ lastOp' = "onSave"
  /\ handleSaveDrawing(emitted + 1)
  /\ engineIdle
  /\ UNCHANGED <<nPre, nRun, nUndo, nRedo, preLog, snap>>

NextHist ==
  \/ quietThumbs /\ PreSave
  \/ quietThumbs /\ PreClear
  \/ quietThumbs /\ RunSave
  \/ quietThumbs /\ RunUndo
  \/ quietThumbs /\ RunRedo
  \/ quietThumbs /\ PostSave
  \/ \E i \in 1..Len(thumbLoads) : OnThumbLoaded(i)

SpecHist == Init /\ [][NextHist]_vars

\* ================================================================ claims
pastOf(h, id) == historyOf(h, id).past
futureOf(h, id) == historyOf(h, id).future

\* C1: in every reachable state every slide's history has past.length <= 20.
\* Clear-slide pushes onto past without the cap, so 20 checkpoints followed by
\* clear-slide leave 21 entries.
C1_PastBounded ==
  \A id \in DOMAIN history : Len(history[id].past) <= 20

C3_Undo ==
  [][lastOp' = "onUndo" =>
       LET id == currentSlideId
           past == pastOf(history, id)
       IN IF past = <<>>
            THEN UNCHANGED <<history, drawings, slides, thumbLoads>>
            ELSE /\ pastOf(history', id) = SubSeq(past, 1, Len(past) - 1)
                 /\ drawingOf(drawings', id) = past[Len(past)]
                 /\ (past[Len(past)] = 0) = (id \notin DOMAIN drawings')
                 /\ futureOf(history', id) = <<currentDrawing>> \o futureOf(history, id)]_vars

\* C3 witness: a second undo in a row has put two blobs on future.
C3_Witness ==
  /\ lastOp = "onUndo"
  /\ Len(futureOf(history, currentSlideId)) = 2

\* C4: redo on slide S with no history entry or an empty future changes neither
\* history, ink blobs nor thumbnails; otherwise the first element of future is
\* removed and becomes the current blob and the blob that was current ('' if
\* none) is appended to past.
C4_Redo ==
  [][lastOp' = "onRedo" =>
       LET id == currentSlideId
           future == futureOf(history, id)
       IN IF future = <<>>
            THEN UNCHANGED <<history, drawings, slides, thumbLoads>>
            ELSE /\ futureOf(history', id) = SubSeq(future, 2, Len(future))
                 /\ drawingOf(drawings', id) = future[1]
                 /\ pastOf(history', id) = Append(pastOf(history, id), currentDrawing)]_vars

\* C4 witness: a redo that found two blobs on future has moved one to past.
C4_Witness ==
  /\ lastOp = "onRedo"
  /\ futureOf(history, currentSlideId) # <<>>
  /\ pastOf(history, currentSlideId) # <<>>

\* C5: after N consecutive checkpoints on S, N undo requests and then N redo
\* requests leave S's current blob, past and future as they were right after
\* the N-th checkpoint.
C5_RoundTrip ==
  (phase = "redo" /\ nUndo = nRun /\ nRedo = nRun) => slideState = snap

\* C5 witness: the round trip has been completed for a run longer than the cap.
C5_Witness ==
  /\ phase = "redo" /\ nUndo = nRun /\ nRedo = nRun
  /\ nRun > 20
  /\ currentDrawing = emitted

C7_LastTwenty ==
  /\ (phase = "run" /\ nRun > 20) =>
        pastOf(history, currentSlideId) = lastN(preLog, 20)
  /\ (phase = "undo" /\ nRun > 20 /\ nUndo >= 20) =>
        pastOf(history, currentSlideId) = <<>>

\* The content the surface settles to once the decodes of the latest reload
\* have completed.
settled ==
  surface \cup UNION {decodeImage(imgLoads[i].src) :
                        i \in {j \in 1..Len(imgLoads) : ~imgLoads[j].stale}}

pixelsOf(blob) == IF blob = 0 THEN {} ELSE decodeImage(blob)

\* C8: after every undo or redo that changes the current blob of the displayed
\* slide the surface is reloaded from that blob: once the decode has completed
\* the surface holds exactly the blob's pixels (blank for the '' sentinel).
\* A checkpoint whose blob equals the previous one leaves skipNextRedraw set,
\* and the next reload is skipped.
C8_ReloadAfterUndoRedo ==
  [][((Undo \/ Redo) /\ currentDrawing' # currentDrawing)
        => settled' = pixelsOf(currentDrawing')]_vars

\* C9: the completion of a decode that a newer reload or a stroke has
\* overtaken leaves the surface unchanged.  img.onload draws unconditionally.
C9_LateDecodeIgnored ==
  [][\A i \in 1..Len(imgLoads) :
        (ImgLoaded(i) /\ imgLoads[i].stale) => surface' = surface]_vars

\* C10: once the tool is switched away from the laser and no frame of the trail
\* loop is pending any more, the overlay holds no trail.  The switch cancels
\* the pending frame, so the clearing final frame never runs.
C10_OverlayCleared ==
  (activeTool # LASER /\ rafPending = {}) => laserCanvas = <<>>

\* C11: the trail loop has a scheduled frame callback exactly while the active
\* tool is the laser: none is pending with another tool, exactly one with the
\* laser, and every executed frame re-arms exactly one callback.
C11_OneLoop ==
  /\ activeTool # LASER => rafPending = {}
  /\ activeTool = LASER => /\ Cardinality(rafPending) = 1
                           /\ \A f \in rafPending : f.id = laserReqRef /\ f.tool = LASER

\* C11 witness: with the laser active again after a trail was painted and the
\* gesture restarted, one callback is pending.
C11_Witness ==
  /\ activeTool = LASER
  /\ Cardinality(rafPending) = 1
  /\ laserCanvas # <<>>
  /\ surface # {}

\* C12: pointer press, move and release events handled while the laser is the
\* active tool leave the raster surface, the ink blobs and every slide's
\* history unchanged and emit no checkpoint.
C12_LaserLeavesInk ==
  [][(activeTool = LASER /\ (StopDrawing \/ \E pt \in TrailPoints : StartDrawing(pt) \/ Draw(pt)))
       => UNCHANGED <<surface, drawings, history, emitted, skipNextRedraw>>]_vars

\* C12 witness: a laser gesture is in progress over a surface that holds ink.
C12_Witness ==
  /\ activeTool = LASER
  /\ isDrawing
  /\ Len(laserPointsRef) = 2
  /\ surface # {}
  /\ emitted = 1

\* C13: after every frame executed at time t the retained trail, and the trail
\* the frame painted, contain only points p with t - p.time < 300 ms.
C13_TrailWindow ==
  [][\A f \in rafPending : RenderFrame(f) =>
        /\ \A i \in 1..Len(laserPointsRef') : now - laserPointsRef'[i].time < 3
        /\ \A i \in 1..Len(laserCanvas') : now - laserCanvas'[i].time < 3]_vars

\* C13 witness: a frame at 300 ms or later has painted a trail of points that
\* were recorded after t = 0.
C13_Witness ==
  /\ now >= 3
  /\ Len(laserCanvas) > 1
  /\ laserCanvas = laserPointsRef
  /\ laserCanvas[1].time > 0

\* ------------------------------------------------------- selection claims
\* The drag of a selection-creation gesture in progress: from the press point
\* to where the pointer is now.
dragW == Abs(gesturePos[1] - startPos[1])
dragH == Abs(gesturePos[2] - startPos[2])
creating == /\ activeTool = SELECT
            /\ isDrawing
            /\ selectionRef = <<>>
            /\ startPos # <<>>
            /\ snapshotRef # <<>>
            /\ gesturePos # <<>>

\* C14: the release of a selection-creation drag narrower or lower than 5
\* pixels leaves the surface as it was before the gesture, no Selection, no
\* backgroundHole and no checkpoint; the release of a drag of at least 5
\* pixels in both dimensions leaves a live Selection.
C14_DragCreatesSelection ==
  [][(creating /\ StopDrawing) =>
       IF dragW < MIN_SELECTION \/ dragH < MIN_SELECTION
         THEN /\ surface' = snapshotRef[1]
              /\ selectionRef' = <<>>
              /\ bgSnapshotRef' = <<>>
              /\ emitted' = emitted
         ELSE selectionRef' # <<>> /\ bgSnapshotRef' # <<>>]_vars

\* The pixels of a lifted bitmap put at (x, y) at their own size: one device
\* pixel of the bitmap on one device pixel of the surface.
placedCells(bitmap, x, y) ==
  UNION {coveredCells(x + (q[1] * CellPx) \div dpr, y + (q[2] * CellPx) \div dpr,
                      ((q[1] + 1) * CellPx - 1) \div dpr - (q[1] * CellPx) \div dpr + 1,
                      ((q[2] + 1) * CellPx - 1) \div dpr - (q[2] * CellPx) \div dpr + 1) :
           q \in bitmap.px}

\* The three ways to commit: "Done", a switch to another tool, and a press of
\* the selection tool outside the selection.
commits ==
  \/ MenuDone
  \/ \E t \in SelectTools \ {SELECT} : SetTool(t)
  \/ /\ activeTool = SELECT
     /\ \E pt \in DragPoints : /\ selectionRef # <<>> => ~insideSelection(pt, selectionRef[1])
                               /\ StartDrawing(pt)

\* C15: a commit of a live Selection leaves on the surface the backgroundHole
\* with the lifted bitmap composited at its final placement, discards the
\* Selection and the backgroundHole and emits exactly one checkpoint; a commit
\* without a Selection changes neither the surface nor the deck.
C15_CommitComposites ==
  [][commits =>
       IF selectionRef # <<>> /\ bgSnapshotRef # <<>>
         THEN /\ surface' = bgSnapshotRef[1]
                              \cup placedCells(selectionRef[1].canvas, selectionRef[1].x,
                                               selectionRef[1].y)
              /\ selectionRef' = <<>>
              /\ bgSnapshotRef' = <<>>
              /\ emitted' = emitted + 1
         ELSE UNCHANGED <<surface, drawings, history, emitted>>]_vars

\* A release that lifts a Selection.
lifts == StopDrawing /\ selectionRef = <<>> /\ selectionRef' # <<>>

\* C16: committing a Selection right after its lift, without a move, gives
\* back the surface as it was before the lift, whatever the display's pixel
\* ratio.
C16_LiftCommitIdentity ==
  [][lifts => commitSelection(engine').surface = snapshotRef[1]]_vars

\* The step's checkpoint carries the blob: one slide's ink blob becomes it and
\* no other slide's blob changes.
checkpointed(blob) ==
  \E id \in DOMAIN drawings' :
    /\ drawings'[id] = blob
    /\ \A other \in DOMAIN drawings' \ {id} : drawingOf(drawings, other) = drawings'[other]

deletes == MenuDelete \/ KeyDelete
cuts == MenuCut \/ KeyCut

\* C17: deleting or cutting a live Selection leaves the backgroundHole on the
\* surface, discards the Selection and the backgroundHole and emits exactly
\* one checkpoint, whose content is the backgroundHole; the cut also leaves the
\* lifted bitmap in the Clipboard.
C17_DeleteAndCut ==
  [][((deletes \/ cuts) /\ selectionRef # <<>> /\ bgSnapshotRef # <<>>) =>
       /\ surface' = bgSnapshotRef[1]
       /\ selectionRef' = <<>>
       /\ bgSnapshotRef' = <<>>
       /\ emitted' = emitted + 1
       /\ checkpointed(toDataURL(bgSnapshotRef[1]))
       /\ cuts => /\ clipboardRef' # <<>>
                  /\ clipboardRef'[1].canvas = selectionRef[1].canvas]_vars

\* C18: a paste with a Clipboard first commits a live Selection, whose
\* checkpoint carries the committed surface without the pasted bitmap; the
\* backgroundHole becomes the surface that results from the commit (the
\* surface as it is when there was no Selection), the new Selection holds a
\* copy of the Clipboard's bitmap at ((width - w) / 2, (height - h) / 2), and
\* no checkpoint is emitted for it.
C18_PasteCentred ==
  [][(KeyPaste /\ clipboardRef # <<>>) =>
       LET live == selectionRef # <<>>
           resulting == IF live THEN commitSelection(engine).surface ELSE surface
           clip == clipboardRef[1]
       IN /\ IF live
               THEN emitted' = emitted + 1 /\ checkpointed(toDataURL(resulting))
               ELSE emitted' = emitted /\ drawings' = drawings /\ history' = history
          /\ bgSnapshotRef' = <<resulting>>
          /\ selectionRef' # <<>>
          /\ selectionRef'[1].canvas = clip.canvas
          /\ selectionRef'[1].w = clip.w
          /\ selectionRef'[1].h = clip.h
          /\ 2 * selectionRef'[1].x \in {width - clip.w, width - clip.w - 1}
          /\ 2 * selectionRef'[1].y \in {height - clip.h, height - clip.h - 1}]_vars

\* A Selection pasted over ink that a commit has just checkpointed.
C18_Witness ==
  /\ selectionRef # <<>>
  /\ clipboardRef # <<>>
  /\ selectionRef[1].canvas = clipboardRef[1].canvas
  /\ 2 * selectionRef[1].x = width - selectionRef[1].w
  /\ selectionRef[1].x % CellPx # 0
  /\ bgSnapshotRef # <<>>
  /\ bgSnapshotRef[1] # {}
  /\ emitted > 0
  /\ \E id \in DOMAIN drawings : drawings[id] = toDataURL(bgSnapshotRef[1])

\* C19: only Copy and Cut write the Clipboard; every other step (commit,
\* delete, move, duplicate, recolor, paste, tool switch, slide switch, undo,
\* redo) leaves it as it is.
C19_ClipboardWriters ==
  [][clipboardRef' # clipboardRef => (KeyCopy \/ KeyCut \/ MenuCut)]_vars

\* A copied bitmap with ink that has outlived its Selection, a checkpoint, an
\* undo and a slide switch.
C19_Witness ==
  /\ clipboardRef # <<>>
  /\ clipboardRef[1].canvas.px # {}
  /\ selectionRef = <<>>
  /\ emitted > 0
  /\ currentSlideIndex = 2
  /\ \E id \in DOMAIN history : history[id].future # <<>>

\* C20: recoloring a live Selection changes the colour of the lifted bitmap
\* and nothing else: the bitmap's silhouette and size, the Selection's
\* placement, the backgroundHole and the ink blobs stay as they are, and no
\* checkpoint is emitted.
C20_RecolorOnlyColour ==
  [][\A color \in Colors :
       (MenuRecolor(color) /\ selectionRef # <<>>) =>
         /\ selectionRef' # <<>>
         /\ selectionRef'[1].canvas = [selectionRef[1].canvas EXCEPT !.tint = color]
         /\ selectionRef'[1].x = selectionRef[1].x
         /\ selectionRef'[1].y = selectionRef[1].y
         /\ selectionRef'[1].w = selectionRef[1].w
         /\ selectionRef'[1].h = selectionRef[1].h
         /\ UNCHANGED <<bgSnapshotRef, drawings, history, emitted>>]_vars

\* A recolored Selection whose bitmap has ink and transparent pixels.
C20_Witness ==
  /\ selectionRef # <<>>
  /\ selectionRef[1].canvas.tint \in Colors
  /\ selectionRef[1].canvas.px # {}
  /\ Cardinality(selectionRef[1].canvas.px)
       < (selectionRef[1].canvas.w \div CellPx) * (selectionRef[1].canvas.h \div CellPx)
  /\ bgSnapshotRef # <<>>

\* C21: right after a switch of the active tool to a tool other than SELECT no
\* Selection is live: a Selection that was live at the switch has been
\* committed by the switch itself, with exactly one checkpoint, and a switch
\* without a live Selection emits none.
C21_SwitchCommits ==
  [][\A t \in SelectTools \ {SELECT} :
       SetTool(t) =>
         /\ selectionRef' = <<>>
         /\ bgSnapshotRef' = <<>>
         /\ ~selectionMenu'
         /\ IF selectionRef # <<>>
              THEN /\ emitted' = emitted + 1
                   /\ checkpointed(toDataURL(surface'))
              ELSE UNCHANGED <<emitted, drawings, history, surface>>]_vars

\* The pen is active after a Selection that was copied, no Selection is live
\* and the only checkpoint so far holds the surface, ink included.
C21_Witness ==
  /\ activeTool = PEN
  /\ ~isDrawing
  /\ selectionRef = <<>>
  /\ bgSnapshotRef = <<>>
  /\ clipboardRef # <<>>
  /\ clipboardRef[1].canvas.px # {}
  /\ emitted = 1
  /\ surface # {}
  /\ currentDrawing = toDataURL(surface)
  /\ pastOf(history, currentSlideId) = <<0>>

\* A step that shows another slide.
slideSwitch == (NextSlide \/ PrevSlide) /\ currentSlideIndex' # currentSlideIndex

\* C22: after every slide switch no Selection, backgroundHole or stroke sample
\* path of the previous slide remains live, also when the old and the new
\* slide have equal ink blobs.  The reset is part of the reload effect, which
\* runs only when the ink blob of the displayed slide changes.
C22_SwitchResets ==
  [][slideSwitch =>
       /\ selectionRef' = <<>>
       /\ bgSnapshotRef' = <<>>
       /\ ~selectionMenu'
       /\ pointsRef' = <<>>]_vars

\* ------------------------------------------------------------ text claims
\* The four triggers of commitText(): Enter without Shift, the loss of focus,
\* a tap with the text tool and a switch to another tool.
textCommits ==
  \/ TextEnter
  \/ TextBlur
  \/ activeTool = TEXT /\ \E pt \in TextPoints : StartDrawing(pt)
  \/ \E t \in TextTools \ {TEXT} : SetTool(t)

hasVisibleChar(text) == \E k \in 1..Len(text) : text[k] \notin {SPACE, NEWLINE}

\* C23: each of the four triggers commits an active TextEdit whose text has a
\* character that is not whitespace: exactly one checkpoint is emitted, it
\* holds the surface with the text, and afterwards no TextEdit is active and
\* the text is cleared, so that a further trigger has nothing to commit:
\* without an active TextEdit a trigger emits nothing.
C23_TextCommitsOnce ==
  [][textCommits =>
       IF textInput.visible /\ hasVisibleChar(textInput.text)
         THEN /\ emitted' = emitted + 1
              /\ checkpointed(toDataURL(surface'))
              /\ surface \subseteq surface'
              /\ ~textInput'.visible
              /\ textInput'.text = <<>>
         ELSE textInput.visible \/ UNCHANGED <<emitted, drawings, history, surface>>]_vars

\* Two text edits were committed, the second by the switch to the pen: two
\* checkpoints, two marks, no text input.
C23_Witness ==
  /\ activeTool = PEN
  /\ ~isDrawing
  /\ emitted = 2
  /\ ~textInput.visible
  /\ textInput.text = <<>>
  /\ textInput.x = CellPx
  /\ Cardinality(surface) = 2
  /\ currentDrawing = toDataURL(surface)
  /\ Len(pastOf(history, currentSlideId)) = 2

\* C24: a commit of a TextEdit whose text is empty or whitespace only closes
\* the text input and leaves the surface, the ink blobs, the history and
\* skipNextRedraw as they are; no checkpoint is emitted.
C24_BlankTextCommitsNothing ==
  [][(textCommits /\ textInput.visible /\ ~hasVisibleChar(textInput.text)) =>
       /\ ~textInput'.visible
       /\ UNCHANGED <<surface, drawings, history, skipNextRedraw, emitted, slides>>]_vars

\* A text input of a space and a line break was committed and is closed; the
\* surface and the deck are as they were at the start.
C24_Witness ==
  /\ ~textInput.visible
  /\ textInput.text = <<SPACE, NEWLINE>>
  /\ surface = {}
  /\ drawings = <<>>
  /\ history = <<>>
  /\ emitted = 0

\* C25: the release of a pen, eraser or shape gesture emits exactly one
\* checkpoint, which holds the surface, also when the shape has no extent;
\* the release leaves no gesture in progress, and a release without a gesture
\* in progress (a second release notification) emits nothing.
C25_OneCheckpointPerGesture ==
  [][(StopDrawing /\ activeTool \in ShapeTools) =>
       /\ ~isDrawing'
       /\ IF isDrawing
            THEN /\ emitted' = emitted + 1
                 /\ checkpointed(toDataURL(surface'))
            ELSE UNCHANGED <<emitted, drawings, history, surface, skipNextRedraw>>]_vars

\* With the shape tool, after an outline was checkpointed, a second
\* checkpoint has left the surface without a mark: an eraser gesture, or an
\* undo and a shape gesture without extent.
C25_Witness ==
  /\ activeTool = SHAPE
  /\ ~isDrawing
  /\ emitted = 2
  /\ surface = {}
  /\ currentDrawing = toDataURL({})
  /\ \E k \in 1..Len(pastOf(history, currentSlideId)) :
       pastOf(history, currentSlideId)[k] > toDataURL({})

\* C26: while the viewport's width or height is zero no CanvasLayer is
\* mounted, so that none of its effects has run: no frame of the trail loop is
\* requested and no ink image is being decoded.  App renders the CanvasLayer
\* as soon as the width is positive.
C26_NoEngineWithoutViewport ==
  (width = 0 \/ height = 0) =>
    /\ ~canvasMounted
    /\ rafPending = {}
    /\ imgLoads = <<>>

\* C28: between two events skipNextRedraw is not set: the flag a checkpoint of
\* the engine sets is cleared by the reload attempt that checkpoint causes, so
\* that an undo, a redo, a clear, a slide switch or a resize never meets it.
\* A checkpoint whose blob equals the slide's current blob causes no reload
\* attempt, and the flag stays set.
C28_FlagClearedByOwnReload == ~skipNextRedraw

\* C29: the release of a selection-creation drag of at least 5 pixels in both
\* dimensions leaves a Selection whose rectangle is spanned by the press point
\* and the gesture's last pointer position, whose bitmap holds the pixels the
\* surface had in that rectangle before the gesture, and a backgroundHole that
\* is the pre-gesture surface with the rectangle cleared.  The release spans
\* the rectangle with lastPos, which the drag never records.
C29_LiftSpansGesture ==
  [][(creating /\ StopDrawing /\ dragW >= MIN_SELECTION /\ dragH >= MIN_SELECTION) =>
       LET x == Min(startPos[1], gesturePos[1])
           y == Min(startPos[2], gesturePos[2])
       IN /\ selectionRef' # <<>>
          /\ selectionRef'[1].x = x
          /\ selectionRef'[1].y = y
          /\ selectionRef'[1].w = dragW
          /\ selectionRef'[1].h = dragH
          /\ selectionRef'[1].canvas = getImageData(snapshotRef[1], x, y, dragW, dragH)
          /\ bgSnapshotRef' = <<clearRect(snapshotRef[1], x, y, dragW, dragH)>>]_vars

\* C30: "Duplicate" on a live Selection at (x, y) stamps the lifted bitmap into
\* the backgroundHole at (x, y), keeps the Selection live with the same bitmap
\* and size at (x + 20, y + 20) and emits no checkpoint; a commit right after
\* it leaves the bitmap on the surface at both places.  On a display with a
\* pixel ratio above 1 the stamp and the commit magnify the bitmap.
C30_DuplicateStamps ==
  [][(MenuDuplicate /\ selectionRef # <<>> /\ bgSnapshotRef # <<>>) =>
       LET s == selectionRef[1]
           stamp == placedCells(s.canvas, s.x, s.y)
       IN /\ bgSnapshotRef' = <<bgSnapshotRef[1] \cup stamp>>
          /\ selectionRef' = <<[s EXCEPT !.x = s.x + 20, !.y = s.y + 20]>>
          /\ UNCHANGED <<drawings, history, emitted>>
          /\ commitSelection(engine').surface =
               bgSnapshotRef[1] \cup stamp \cup placedCells(s.canvas, s.x + 20, s.y + 20)]_vars

\* C27: the slide ids that have a history entry, and those that have an ink
\* blob, are ids of slides of the deck.  A checkpoint of a keyboard shortcut
\* is stored under the id of the slide that was shown when the engine was
\* mounted, whether or not the deck still holds that slide.
C27_EntriesBelongToDeck ==
  LET ids == {slides[i].id : i \in 1..Len(slides)}
  IN DOMAIN history \subseteq ids /\ DOMAIN drawings \subseteq ids

\* ---------------------------------------------------------- resize handles
\* The point pt lies within 10 px of a corner of the placement rectangle of s.
nearCorner(pt, s) ==
  \E cx \in {s.x, s.x + s.w}, cy \in {s.y, s.y + s.h} :
    (pt[1] - cx) * (pt[1] - cx) + (pt[2] - cy) * (pt[2] - cy) <= 100

\* C31: with a live Selection, a press of the selection tool within 10 px of a
\* corner of the placement rectangle keeps the Selection (it is not committed)
\* and does not start a move: the next pointer move does not translate the
\* Selection.  startDrawing only tests whether the press is inside the
\* rectangle: inside it starts a move, outside it commits.
C31_CornerPressResizes ==
  [][\A pt \in DragPoints :
       (activeTool = SELECT /\ selectionRef # <<>> /\ bgSnapshotRef # <<>>
          /\ nearCorner(pt, selectionRef[1]) /\ StartDrawing(pt)) =>
         /\ selectionRef' = selectionRef
         /\ ~(isDrawing' /\ lastPos' # <<>>)]_vars

\* ------------------------------------------------------- shape claims
\* A gesture of the shape tool in progress.
shaping == activeTool = SHAPE /\ isDrawing /\ startPos # <<>> /\ snapshotRef # <<>>

stroking == activeTool \in {PEN, ERASER} /\ isDrawing /\ pointsRef # <<>>

\* C33: the release of a pen or eraser gesture flushes the stroke: with three
\* or more samples the last sample is stroked, with one sample that sample,
\* with two samples both; a completed pen gesture over a blank surface leaves
\* ink.  stopDrawing strokes only a path of more than two samples.
C33_ReleaseFlushesStroke ==
  [][(stroking /\ StopDrawing) =>
       /\ stroke(surface', activeTool, Last(pointsRef)) = surface'
       /\ Len(pointsRef) = 2 => stroke(surface', activeTool, pointsRef[1]) = surface'
       /\ (activeTool = PEN /\ \A i \in 1..Len(pointsRef) : pointsRef[i] \in CellPoints)
            => surface' # {}]_vars

\* The square of the distance between two points.
distSq(p, q) == (p[1] - q[1]) * (p[1] - q[1]) + (p[2] - q[2]) * (p[2] - q[2])

\* C34: during a pen or eraser gesture a pointer move no more than 4 px away
\* from the last accepted sample is rejected: it appends no sample and draws
\* nothing.  draw() pushes every pointer position onto the path.
C34_SampleThreshold ==
  [][\A pt \in CellPoints :
       (stroking /\ Draw(pt) /\ distSq(pt, Last(pointsRef)) <= 4 * 4) =>
         UNCHANGED <<pointsRef, surface>>]_vars

\* C35: during a pen or eraser gesture every pointer move appends one sample;
\* a move that makes fewer than three samples draws nothing; a move that
\* makes the k-th sample (k >= 3) draws the one segment from
\* mid(p(k-2), p(k-1)) to mid(p(k-1), pk) with control point p(k-1), which
\* starts where the segment of the move before ended.
C35_SegmentsChain ==
  [][\A pt \in StrokePoints :
       (stroking /\ Draw(pt)) =>
         LET pts == pointsRef'
             n == Len(pts)
         IN /\ pts = Append(pointsRef, pt)
            /\ n < 3 => surface' = surface
            /\ n >= 3 =>
                 /\ segmentOf(pts) = [from |-> mid(pts[n - 2], pts[n - 1]),
                                      ctrl |-> pts[n - 1],
                                      to |-> mid(pts[n - 1], pts[n])]
                 /\ surface' = stroke(surface, activeTool, segmentOf(pts).ctrl)
            /\ n >= 4 => segmentOf(pts).from = segmentOf(pointsRef).to]_vars

\* C35 witness: a pen gesture of four samples through three different points
\* has drawn two segments, around its second and its third sample.
C35_Witness ==
  /\ activeTool = PEN
  /\ isDrawing
  /\ Len(pointsRef) = 4
  /\ Cardinality({pointsRef[i] : i \in 1..4}) = 3
  /\ pointsRef[2] # pointsRef[3]
  /\ markAt(pointsRef[2]) \cup markAt(pointsRef[3]) \subseteq surface
  /\ Cardinality(surface) = 2

\* ------------------------------------------------------------ rest claims
\* No gesture in progress, no Selection, no open text input, no pending decode.
atRest == ~isDrawing /\ selectionRef = <<>> /\ ~textInput.visible /\ imgLoads = <<>>

\* C36: at rest the surface holds exactly the pixels of the displayed slide's
\* ink blob (none when the slide has no blob).
C36_SurfaceIsBlobAtRest == atRest => surface = pixelsOf(currentDrawing)

\* C37: a live Selection implies that the selection tool is active.  Ctrl+V
\* pastes the Clipboard as a floating Selection whatever the tool.
C37_SelectionOnlyWithSelectTool == selectionRef # <<>> => activeTool = SELECT

\* C38: the Selection and the backgroundHole are both present or both absent.
C38_SelectionWithHole == (selectionRef = <<>>) <=> (bgSnapshotRef = <<>>)

\* C38 witness: after a lift, a copy, a deletion (one checkpoint) and a paste
\* with the pen active, a Selection floats over its backgroundHole.
C38_Witness ==
  /\ selectionRef # <<>>
  /\ bgSnapshotRef # <<>>
  /\ clipboardRef # <<>>
  /\ emitted = 1
  /\ activeTool = PEN
  /\ currentDrawing = toDataURL(bgSnapshotRef[1])

\* ------------------------------------------------------------ thumbnail claims

\* C39: once no asynchronous thumbnail generation is pending, every slide's
\* thumbnail is the one generated from the slide's current ink blob, and it is
\* absent when the slide has no ink.
C39_ThumbnailConverges ==
  thumbLoads = <<>> =>
    \A i \in 1..Len(slides) :
      slides[i].thumbnailUrl = drawingOf(drawings, slides[i].id)

\* ----------------------------------------------------------------- deck claims
indexInDeck == Len(slides) >= 1 /\ currentSlideIndex \in 1..Len(slides)

====
